---------------------------- MODULE Spec2Model ----------------------------
(***************************************************************************)
(* BPMN <-> test coverage report generators.                               *)
(*                                                                         *)
(* Three programs live in the repository:                                  *)
(*   "v1"    the first report script      (src/unnamed/part_000, 1-318)    *)
(*   "v2"    the current report script    (src/unnamed/part_000, 320-772)  *)
(*   "tasks" the Tasks-only generator     (src/scripts/generate-bpmn-...)  *)
(*                                                                         *)
(* Strings the code takes apart (file texts, tag names, identifiers,       *)
(* titles, joined cells) are sequences of tokens; "" is <<>>.  A token is  *)
(* one character, except the literal "[bpmn:" which only the marker        *)
(* regular expression looks at and which holds no newline and no "]".      *)
(***************************************************************************)
EXTENDS Integers, Sequences, FiniteSets, TLC

VARIABLES
    variant,      \* which program runs: "v1", "v2", "tasks", or "-" (a function alone)
    pc,           \* position of main
    docFile,      \* fs: the document file: [exists, parses, tree, xml]
    artifacts,    \* fs: the files under tests/ in directory order: [name, text]
    doc,          \* what the loader returned: the parsed tree, or the xml text
    files,        \* the artifact files the scanner enumerated: [name, text]
    readable,     \* fs: names of the artifact files that can be read now
    fileIdx,      \* scanTestsForBpmnTags: index of the file of the for loop
    checked,      \* scanTestsForBpmnTags: existsSync passed for files[fileIdx]
    elements,     \* collectBpmnElements / extractTasks result
    hitsById,     \* Map id -> hits, as a sequence of [id, hits] in insertion order
    refsById,     \* Tasks-only: Map id -> playwrightRefs
    scanned,      \* the hits in the order the scanner pushed them (ghost)
    rows,         \* buildReport().rows
    orphans,      \* buildReport().orphans
    formatted,    \* the serializations computed so far
    written,      \* fs: the output files written so far
    stages,       \* the stages completed so far, in order (ghost)
    exitCode      \* process exit code: -1 while running

vars == <<variant, pc, docFile, artifacts, doc, files, readable, fileIdx, checked,
          elements, hitsById, refsById, scanned, rows, orphans, formatted, written,
          stages, exitCode>>

-----------------------------------------------------------------------------
(* Bounds *)

MaxNodes == 2
MaxHits == 3
MaxLen == 6
MaxTree == 4
MaxFiles == 2

-----------------------------------------------------------------------------
(* Sequence helpers *)

SeqsUpTo(S, n) == UNION { [1..k -> S] : k \in 0..n }

RECURSIVE Count(_, _)
Count(s, x) == IF s = <<>> THEN 0
               ELSE (IF Head(s) = x THEN 1 ELSE 0) + Count(Tail(s), x)

RECURSIVE Flatten(_)
Flatten(ss) == IF ss = <<>> THEN <<>> ELSE Head(ss) \o Flatten(Tail(ss))

\* Array.prototype.join on strings: the pieces with sep between them
RECURSIVE Join(_, _)
Join(list, sep) ==
    IF list = <<>> THEN <<>>
    ELSE IF Len(list) = 1 THEN Head(list)
    ELSE Head(list) \o sep \o Join(Tail(list), sep)

\* String.prototype.includes: needle occurs as a contiguous run of hay
Includes(hay, needle) ==
    \E i \in 1..(Len(hay) - Len(needle) + 1) :
        SubSeq(hay, i, i + Len(needle) - 1) = needle

-----------------------------------------------------------------------------
(* Map (insertion ordered), as used for hitsById *)

MapKeys(m) == [i \in 1..Len(m) |-> m[i].id]

MapHas(m, id) == \E i \in 1..Len(m) : m[i].id = id

\* a lookup that folds case before comparing identifiers
FoldCase(id) == [i \in 1..Len(id) |-> IF id[i] = "A" THEN "a" ELSE id[i]]

MapGetOrEmpty_IgnoreCase(m, id) ==
    IF \E i \in 1..Len(m) : FoldCase(m[i].id) = FoldCase(id)
    THEN m[CHOOSE i \in 1..Len(m) : FoldCase(m[i].id) = FoldCase(id)].hits
    ELSE <<>>

\* hitsById.get(id) || []
MapGetOrEmpty(m, id) ==
    IF MapHas(m, id)
    THEN m[CHOOSE i \in 1..Len(m) : m[i].id = id].hits
    ELSE <<>>

\* a set that moves an existing key behind every other key
MapSet_MoveToEnd(m, id, arr) ==
    Append(SelectSeq(m, LAMBDA e : e.id # id), [id |-> id, hits |-> arr])

\* hitsById.set(id, arr): an existing key keeps its place
MapSet(m, id, arr) ==
    IF MapHas(m, id)
    THEN [i \in 1..Len(m) |-> IF m[i].id = id THEN [id |-> id, hits |-> arr] ELSE m[i]]
    ELSE Append(m, [id |-> id, hits |-> arr])

-----------------------------------------------------------------------------
(* scanTestsForBpmnTags: the two regular expressions *)

OPEN == "[bpmn:"
CLOSE == "]"
NL == "\n"

\* the three quote characters; the token "backtick" stands for the grave accent
Quotes == {"'", "\"", "backtick"}
Keywords == {"test", "it", "describe"}

\* the i flag of titleRe: the upper-case spellings the alphabets hold
Lower(t) ==
    CASE t = "TEST" -> "test"
      [] t = "IT" -> "it"
      [] t = "DESCRIBE" -> "describe"
      [] OTHER -> t

IsWs(t) == t \in {" ", "\t", NL}

\* first position >= i holding x, or 0
RECURSIVE IndexFrom(_, _, _)
IndexFrom(text, x, i) ==
    IF i > Len(text) THEN 0
    ELSE IF text[i] = x THEN i
    ELSE IndexFrom(text, x, i + 1)

\* \s* : first position >= i that holds no white space (Len + 1 when none)
RECURSIVE SkipWs(_, _)
SkipWs(text, i) ==
    IF i > Len(text) THEN i
    ELSE IF IsWs(text[i]) THEN SkipWs(text, i + 1)
    ELSE i

\* last position holding x, or 0
RECURSIVE LastIndex(_, _, _)
LastIndex(text, x, i) ==
    IF i < 1 THEN 0
    ELSE IF text[i] = x THEN i
    ELSE LastIndex(text, x, i - 1)

\* an identifier class that also accepts "]": the marker runs to the last "]"
MarkerEndAt_Greedy(text, i) ==
    IF i > Len(text) \/ text[i] # OPEN THEN 0
    ELSE LET c == LastIndex(text, CLOSE, Len(text))
         IN  IF c > i + 1 THEN c ELSE 0

\* /\[bpmn:([^\]]+)\]/ tried at position i: the position of the closing "]", or 0
MarkerEndAt(text, i) ==
    IF i > Len(text) \/ text[i] # OPEN THEN 0
    ELSE LET c == IndexFrom(text, CLOSE, i + 1)
         IN  IF c > i + 1 THEN c ELSE 0

\* re.exec(text) with re.lastIndex = from - 1: the leftmost match at or after from
RECURSIVE ReExec(_, _)
ReExec(text, from) ==
    IF from > Len(text) THEN [index |-> 0, end |-> 0]
    ELSE IF MarkerEndAt(text, from) # 0
         THEN [index |-> from, end |-> MarkerEndAt(text, from)]
         ELSE ReExec(text, from + 1)

\* the matches the while loop sees, the g flag moving lastIndex past each
RECURSIVE ReMatchesFrom(_, _)
ReMatchesFrom(text, from) ==
    LET mt == ReExec(text, from)
    IN  IF mt.index = 0 THEN <<>>
        ELSE <<mt>> \o ReMatchesFrom(text, mt.end + 1)

ReMatches(text) == ReMatchesFrom(text, 1)

\* mt[1] and mt[0]
MatchId(text, mt) == SubSeq(text, mt.index + 1, mt.end - 1)
MatchText(text, mt) == SubSeq(text, mt.index, mt.end)

\* titleRe, (test|it|describe) \s* ( \s* quote (.*?) same quote, flags gi,
\* tried at i: [q, c] the positions
\* of the opening and closing quote, or c = 0
TitleAt(text, i) ==
    LET none == [q |-> 0, c |-> 0]
    IN  IF i > Len(text) \/ Lower(text[i]) \notin Keywords THEN none
        ELSE LET p == SkipWs(text, i + 1)
             IN  IF p > Len(text) \/ text[p] # "(" THEN none
                 ELSE LET q == SkipWs(text, p + 1)
                      IN  IF q > Len(text) \/ text[q] \notin Quotes THEN none
                          ELSE LET c == IndexFrom(text, text[q], q + 1)
                                   n == IndexFrom(text, NL, q + 1)
                               IN  IF c = 0 \/ (n # 0 /\ n < c) THEN none
                                   ELSE [q |-> q, c |-> c]

RECURSIVE TitlesFrom(_, _)
TitlesFrom(text, from) ==
    IF from > Len(text) THEN <<>>
    ELSE LET m == TitleAt(text, from)
         IN  IF m.c = 0 THEN TitlesFrom(text, from + 1)
             ELSE <<SubSeq(text, m.q + 1, m.c - 1)>> \o TitlesFrom(text, m.c + 1)

Titles(text) == TitlesFrom(text, 1)

\* text.lastIndexOf('\n', index): the last newline at or before index, or 0
RECURSIVE LastIndexOfNL(_, _)
LastIndexOfNL(text, index) ==
    IF index < 1 THEN 0
    ELSE IF index <= Len(text) /\ text[index] = NL THEN index
    ELSE LastIndexOfNL(text, index - 1)

\* before === -1 ? 1 : (text.substring(0, before).match(/\n/g)?.length || 0) + 1
LineOf(text, index) ==
    LET before == LastIndexOfNL(text, index)
    IN  IF before = 0 THEN 1
        ELSE Count(SubSeq(text, 1, before - 1), NL) + 1

\* the last title that holds the marker instead of the first
Snippet_Last(titles, needle) ==
    IF \E i \in 1..Len(titles) : Includes(titles[i], needle)
    THEN titles[CHOOSE i \in 1..Len(titles) :
                    /\ Includes(titles[i], needle)
                    /\ \A j \in (i + 1)..Len(titles) : ~Includes(titles[j], needle)]
    ELSE <<>>

\* titles.find(t => t.includes(mt[0])) || ''
Snippet(titles, needle) ==
    IF \E i \in 1..Len(titles) : Includes(titles[i], needle)
    THEN titles[CHOOSE i \in 1..Len(titles) :
                    /\ Includes(titles[i], needle)
                    /\ \A j \in 1..(i - 1) : ~Includes(titles[j], needle)]
    ELSE <<>>

\* one pass of the inner while loop: the hit pushed for match mt
HitOf(file, text, mt) ==
    [file |-> file,
     line |-> LineOf(text, mt.index),
     title |-> Snippet(Titles(text), MatchText(text, mt))]

\* arr = hitsById.get(id) || []; arr.push(hit); hitsById.set(id, arr)
PushHit(m, id, hit) == MapSet(m, id, Append(MapGetOrEmpty(m, id), hit))

RECURSIVE PushMatches(_, _, _, _)
PushMatches(m, file, text, mts) ==
    IF mts = <<>> THEN m
    ELSE PushMatches(PushHit(m, MatchId(text, Head(mts)), HitOf(file, text, Head(mts))),
                     file, text, Tail(mts))

\* the body of the for loop for one readable file
ScanFile(m, file, text) == PushMatches(m, file, text, ReMatches(text))

\* the hits of one file in the order they are pushed, each with its id
ScanList(file, text) ==
    LET mts == ReMatches(text)
    IN  [k \in 1..Len(mts) |->
            [id |-> MatchId(text, mts[k]), hit |-> HitOf(file, text, mts[k])]]

-----------------------------------------------------------------------------
(* buildReport *)

EmptyMeta ==
    [playwrightRefs |-> <<>>, jiraKeys |-> <<>>, tags |-> <<>>, priority |-> <<>>,
     figmaUrl |-> <<>>, figmaNodeId |-> <<>>, figmaComponentKey |-> <<>>,
     variant |-> <<>>]

\* String(el.type || '').replace(/^bpmn:/, '')
StripBpmnPrefix(type) ==
    IF Len(type) >= 2 /\ type[1] = "bpmn" /\ type[2] = ":"
    THEN SubSeq(type, 3, Len(type))
    ELSE type

\* tests.length > 0 ? 'Covered' : 'Missing'
CoverageOf(tests) == IF Len(tests) > 0 THEN "Covered" ELSE "Missing"

\* el.meta.figmaUrl || (el.meta.figmaNodeId ? 'node:' + figmaNodeId : '')
FigmaCell(meta) ==
    IF meta.figmaUrl # <<>> THEN meta.figmaUrl
    ELSE IF meta.figmaNodeId # <<>> THEN <<"node:">> \o meta.figmaNodeId
    ELSE <<>>

\* t.file followed by '#' + t.title when the title is not empty
TestCell(t) == <<t.file>> \o (IF t.title # <<>> THEN <<"#">> \o t.title ELSE <<>>)

\* the object returned for one element; hits is the local const tests
RowOf(el, m) ==
    LET tests == MapGetOrEmpty(m, el.id)
    IN  [id |-> el.id,
         name |-> el.name,
         type |-> StripBpmnPrefix(el.type),
         priority |-> el.meta.priority,
         tags |-> Join(el.meta.tags, <<", ">>),
         jira |-> Join(el.meta.jiraKeys, <<", ">>),
         playwrightRefs |-> Join(el.meta.playwrightRefs, <<" | ">>),
         figma |-> FigmaCell(el.meta),
         tests |-> Join([k \in 1..Len(tests) |-> TestCell(tests[k])], <<" | ">>),
         hits |-> tests,
         coverage |-> CoverageOf(tests)]

\* new Set(bpmnEls.map(e => e.id))
AllIds(bpmnEls) == { bpmnEls[i].id : i \in 1..Len(bpmnEls) }

\* [...hitsById.keys()].filter(id => !allIds.has(id)), as the entries kept
RECURSIVE OrphanGroups(_, _)
OrphanGroups(m, allIds) ==
    IF m = <<>> THEN <<>>
    ELSE (IF Head(m).id \in allIds THEN <<>> ELSE <<Head(m)>>)
         \o OrphanGroups(Tail(m), allIds)

\* hitsById.get(id).map(h => ({ id, ...h }))
\* one entry per orphaned identifier instead of one per hit
OrphanEntries_FirstOnly(g) ==
    <<[id |-> g.id, file |-> g.hits[1].file, line |-> g.hits[1].line,
       title |-> g.hits[1].title]>>

OrphanEntries(g) ==
    [k \in 1..Len(g.hits) |->
        [id |-> g.id, file |-> g.hits[k].file, line |-> g.hits[k].line,
         title |-> g.hits[k].title]]

\* every group listed as orphaned, matched or not
OrphansOf_NoFilter(m, allIds) ==
    Flatten([i \in 1..Len(m) |-> OrphanEntries(m[i])])

OrphansOf(m, allIds) ==
    LET gs == OrphanGroups(m, allIds)
    IN  Flatten([i \in 1..Len(gs) |-> OrphanEntries(gs[i])])

\* rows kept by id: of several nodes with one id only the last has a row
RECURSIVE KeepLast(_)
KeepLast(els) ==
    IF els = <<>> THEN <<>>
    ELSE (IF \E j \in 2..Len(els) : els[j].id = Head(els).id THEN <<>> ELSE <<Head(els)>>)
         \o KeepLast(Tail(els))

buildReport_LastWins(bpmnEls, m) ==
    [rows |-> [i \in 1..Len(KeepLast(bpmnEls)) |-> RowOf(KeepLast(bpmnEls)[i], m)],
     orphans |-> OrphansOf(m, AllIds(bpmnEls))]

buildReport(bpmnEls, m) ==
    [rows |-> [i \in 1..Len(bpmnEls) |-> RowOf(bpmnEls[i], m)],
     orphans |-> OrphansOf(m, AllIds(bpmnEls))]

-----------------------------------------------------------------------------
(* The parsed tree (what parser.parse returns) and collectBpmnElements      *)
(*                                                                         *)
(* A value is an object (its own enumerable properties in order, attribute *)
(* keys starting with "@"), a string, an array of values, or undefined.    *)

Obj(entries) == [kind |-> "obj", text |-> <<>>, entries |-> entries, items |-> <<>>]
Text(t) == [kind |-> "text", text |-> t, entries |-> <<>>, items |-> <<>>]
Arr(items) == [kind |-> "arr", text |-> <<>>, entries |-> <<>>, items |-> items]
Undefined == [kind |-> "undef", text |-> <<>>, entries |-> <<>>, items |-> <<>>]

AtId == <<"@", "id">>
AtName == <<"@", "name">>
BpmnExt == <<"bpmn", ":", "extensionElements">>
PlainExt == <<"extensionElements">>

\* JavaScript truthiness of a value
Truthy(v) == v.kind \in {"obj", "arr"} \/ (v.kind = "text" /\ v.text # <<>>)

\* node[key]
Get(node, key) ==
    IF node.kind = "obj" /\ \E i \in 1..Len(node.entries) : node.entries[i].k = key
    THEN node.entries[CHOOSE i \in 1..Len(node.entries) : node.entries[i].k = key].v
    ELSE Undefined

\* node[key] || ''  for an attribute
StrOrEmpty(v) == IF v.kind = "text" THEN v.text ELSE <<>>

\* k.startsWith('@')
IsAttrKey(k) == Len(k) >= 1 /\ k[1] = "@"

\* kk.split(':').pop()
RECURSIVE LastSegment(_)
LastSegment(k) ==
    IF k = <<>> THEN <<>>
    ELSE IF k[Len(k)] = ":" THEN <<>>
    ELSE LastSegment(SubSeq(k, 1, Len(k) - 1)) \o <<k[Len(k)]>>

\* String.prototype.trim
RECURSIVE TrimLeft(_)
TrimLeft(t) == IF t # <<>> /\ IsWs(Head(t)) THEN TrimLeft(Tail(t)) ELSE t

RECURSIVE TrimRight(_)
TrimRight(t) ==
    IF t # <<>> /\ IsWs(t[Len(t)]) THEN TrimRight(SubSeq(t, 1, Len(t) - 1)) ELSE t

Trim(t) == TrimRight(TrimLeft(t))

\* split(/[,|]/): the pieces between the separators, empty pieces included
RECURSIVE SplitFrom(_, _)
SplitFrom(t, cur) ==
    IF t = <<>> THEN <<cur>>
    ELSE IF Head(t) \in {",", "|"} THEN <<cur>> \o SplitFrom(Tail(t), <<>>)
    ELSE SplitFrom(Tail(t), Append(cur, Head(t)))

\* split(','): the pipe is no separator
RECURSIVE SplitFrom_CommaOnly(_, _)
SplitFrom_CommaOnly(t, cur) ==
    IF t = <<>> THEN <<cur>>
    ELSE IF Head(t) = "," THEN <<cur>> \o SplitFrom_CommaOnly(Tail(t), <<>>)
    ELSE SplitFrom_CommaOnly(Tail(t), Append(cur, Head(t)))

Split_CommaOnly(t) == SplitFrom_CommaOnly(t, <<>>)

Split(t) == SplitFrom(t, <<>>)

RECURSIVE NonEmpty(_)
NonEmpty(ss) ==
    IF ss = <<>> THEN <<>>
    ELSE (IF Head(ss) # <<>> THEN <<Head(ss)>> ELSE <<>>) \o NonEmpty(Tail(ss))

\* str(x).split(/[,|]/).map(s => s.trim()).filter(Boolean)
SplitList(t) ==
    LET ps == Split(t)
    IN  NonEmpty([i \in 1..Len(ps) |-> Trim(ps[i])])

\* Array.isArray(v) ? v : [v]
AsArray(v) == IF v.kind = "arr" THEN v.items ELSE <<v>>

\* .filter(Boolean)
RECURSIVE FilterTruthy(_)
FilterTruthy(vs) ==
    IF vs = <<>> THEN <<>>
    ELSE (IF Truthy(Head(vs)) THEN <<Head(vs)>> ELSE <<>>) \o FilterTruthy(Tail(vs))

\* Object.entries(v): of an object its properties, of an array its indexed
\* items, of a string its indexed characters
ObjectEntries(v) ==
    CASE v.kind = "obj" -> v.entries
      [] v.kind = "arr" ->
            [i \in 1..Len(v.items) |-> [k |-> <<ToString(i - 1)>>, v |-> v.items[i]]]
      [] v.kind = "text" ->
            [i \in 1..Len(v.text) |-> [k |-> <<ToString(i - 1)>>, v |-> Text(<<v.text[i]>>)]]
      [] OTHER -> <<>>

\* the helper str: a string trimmed, of an object its first string value trimmed
StrOf(x) ==
    IF x.kind = "text" THEN Trim(x.text)
    ELSE IF x.kind = "obj" /\ \E i \in 1..Len(x.entries) : x.entries[i].v.kind = "text"
    THEN Trim(x.entries[CHOOSE i \in 1..Len(x.entries) :
                            /\ x.entries[i].v.kind = "text"
                            /\ \A j \in 1..(i - 1) : x.entries[j].v.kind # "text"].v.text)
    ELSE <<>>

\* a switch whose default branch files the text under tags
ApplyMeta_UnknownAsTag(meta, key, x) ==
    [meta EXCEPT !.tags = Append(@, StrOf(x))]

\* the switch (key) of the innermost forEach
ApplyMeta(meta, key, x) ==
    CASE key = <<"playwrightRef">> ->
            [meta EXCEPT !.playwrightRefs = Append(@, StrOf(x))]
      [] key = <<"jiraKeys">> -> [meta EXCEPT !.jiraKeys = @ \o SplitList(StrOf(x))]
      [] key = <<"tags">> -> [meta EXCEPT !.tags = @ \o SplitList(StrOf(x))]
      [] key = <<"priority">> -> [meta EXCEPT !.priority = StrOf(x)]
      [] key = <<"figmaUrl">> -> [meta EXCEPT !.figmaUrl = StrOf(x)]
      [] key = <<"figmaNodeId">> -> [meta EXCEPT !.figmaNodeId = StrOf(x)]
      [] key = <<"figmaComponentKey">> -> [meta EXCEPT !.figmaComponentKey = StrOf(x)]
      [] key = <<"variant">> -> [meta EXCEPT !.variant = StrOf(x)]
      [] OTHER -> meta

\* the [key, x] pairs the innermost forEach sees for one child ch of ext
MetaItemsOfChild(ch) ==
    IF ch.kind \notin {"obj", "arr"} THEN <<>>
    ELSE LET es == ObjectEntries(ch)
         IN  Flatten([i \in 1..Len(es) |->
                LET xs == FilterTruthy(AsArray(es[i].v))
                IN  [j \in 1..Len(xs) |-> [key |-> LastSegment(es[i].k), x |-> xs[j]]]])

\* the pairs the three nested forEach loops see for ext, in order
MetaItems(ext) ==
    LET es == ObjectEntries(ext)
    IN  Flatten([i \in 1..Len(es) |->
            LET chs == FilterTruthy(AsArray(es[i].v))
            IN  Flatten([j \in 1..Len(chs) |-> MetaItemsOfChild(chs[j])])])

RECURSIVE FoldMeta(_, _)
FoldMeta(meta, its) ==
    IF its = <<>> THEN meta
    ELSE FoldMeta(ApplyMeta(meta, Head(its).key, Head(its).x), Tail(its))

\* node['bpmn:extensionElements'] || node['extensionElements']
ExtOf(node) ==
    IF Truthy(Get(node, BpmnExt)) THEN Get(node, BpmnExt) ELSE Get(node, PlainExt)

\* the element pushed for a node that has an id
ElementOf(node, name) ==
    [id |-> Get(node, AtId).text,
     type |-> name,
     name |-> StrOrEmpty(Get(node, AtName)),
     meta |-> IF Truthy(ExtOf(node)) THEN FoldMeta(EmptyMeta, MetaItems(ExtOf(node)))
              ELSE EmptyMeta]

\* an element for every node that has the attribute, whatever its value
OwnElement_AnyId(node, name) ==
    IF Get(node, AtId) # Undefined THEN <<ElementOf(node, name)>> ELSE <<>>

\* if (node['@id']) { ... out.push(el) }
OwnElement(node, name) ==
    IF Truthy(Get(node, AtId)) THEN <<ElementOf(node, name)>> ELSE <<>>

\* visit(node, name): what it appends to out
RECURSIVE Visit(_, _)
Visit(node, name) ==
    IF ~Truthy(node) THEN <<>>
    ELSE IF node.kind = "arr"
    THEN Flatten([i \in 1..Len(node.items) |-> Visit(node.items[i], name)])
    ELSE IF node.kind # "obj" THEN <<>>
    ELSE OwnElement(node, name)
         \o Flatten([i \in 1..Len(node.entries) |->
                IF IsAttrKey(node.entries[i].k) THEN <<>>
                ELSE Visit(node.entries[i].v, node.entries[i].k)])

collectBpmnElements(obj, tagName) == Visit(obj, tagName)

\* bpmn['bpmn:definitions'] || bpmn.definitions || bpmn
Defs(bpmn) ==
    IF Truthy(Get(bpmn, <<"bpmn", ":", "definitions">>))
    THEN Get(bpmn, <<"bpmn", ":", "definitions">>)
    ELSE IF Truthy(Get(bpmn, <<"definitions">>)) THEN Get(bpmn, <<"definitions">>)
    ELSE bpmn

-----------------------------------------------------------------------------
(* The state no step has touched yet *)

NoDoc == Undefined
NoFile == [exists |-> FALSE, parses |-> FALSE, tree |-> Undefined, xml |-> <<>>]
NoFormats == [csv |-> <<>>, html |-> <<>>, json |-> <<>>]

-----------------------------------------------------------------------------
(* buildReport alone: every node list, every scanned collection of hits *)

TaskTag == <<"bpmn", ":", "task">>

NodeIds == {<<"A">>, <<"a">>}
HitIds == {<<"A">>, <<"a">>, <<"X">>}
HitFiles == {"tests/a.spec.ts", "tests/b.spec.ts"}

ReportNodes ==
    { [id |-> i, type |-> TaskTag, name |-> <<>>, meta |-> EmptyMeta] : i \in NodeIds }

ReportHits ==
    { [id |-> i, hit |-> [file |-> f, line |-> 1, title |-> <<>>]] :
        i \in HitIds, f \in HitFiles }

\* the Map the scanner builds when it pushes the hits of list in order
RECURSIVE GroupHits(_, _)
GroupHits(m, list) ==
    IF list = <<>> THEN m
    ELSE GroupHits(PushHit(m, Head(list).id, Head(list).hit), Tail(list))

InitReport ==
    /\ variant = "-"
    /\ pc = "buildReport"
    /\ docFile = NoFile
    /\ artifacts = <<>>
    /\ refsById = <<>>
    /\ doc = NoDoc
    /\ files = <<>>
    /\ readable = {}
    /\ fileIdx = 0
    /\ checked = FALSE
    /\ elements \in SeqsUpTo(ReportNodes, MaxNodes)
    /\ scanned \in SeqsUpTo(ReportHits, MaxHits)
    /\ hitsById = GroupHits(<<>>, scanned)
    /\ rows = <<>>
    /\ orphans = <<>>
    /\ formatted = NoFormats
    /\ written = <<>>
    /\ stages = <<>>
    /\ exitCode = -1

CallBuildReport ==
    /\ variant = "-"
    /\ pc = "buildReport"
    /\ rows' = buildReport(elements, hitsById).rows
    /\ orphans' = buildReport(elements, hitsById).orphans
    /\ pc' = "reported"
    /\ UNCHANGED <<variant, docFile, artifacts, refsById, doc, files, readable, fileIdx, checked,
                   elements, hitsById, scanned, formatted, written, stages, exitCode>>

SpecReport == InitReport /\ [][CallBuildReport]_vars

\* an orphan entry as the reconciler writes it for a scanned hit
EntryOf(e) ==
    [id |-> e.id, file |-> e.hit.file, line |-> e.hit.line, title |-> e.hit.title]

InSomeRow(e) ==
    \E i \in 1..Len(rows) : rows[i].id = e.id /\ Count(rows[i].hits, e.hit) > 0

InOrphans(e) == Count(orphans, EntryOf(e)) > 0

Unmatched(e) == \A i \in 1..Len(elements) : elements[i].id # e.id

RECURSIVE CountUnmatched(_)
CountUnmatched(list) ==
    IF list = <<>> THEN 0
    ELSE (IF Unmatched(Head(list)) THEN 1 ELSE 0) + CountUnmatched(Tail(list))

\* C1: once buildReport has returned, every scanned hit is in the hit list of
\* some row or in the orphan list, never in both and never in neither.
C1_HitInExactlyOnePlace ==
    pc = "reported" =>
        \A k \in 1..Len(scanned) : InSomeRow(scanned[k]) # InOrphans(scanned[k])

C1_Witness ==
    /\ pc = "reported"
    /\ \E k \in 1..Len(scanned) : InSomeRow(scanned[k]) /\ ~InOrphans(scanned[k])
    /\ \E k \in 1..Len(scanned) : InOrphans(scanned[k]) /\ ~InSomeRow(scanned[k])

\* C2: a row is Covered exactly when some scanned hit carries the row's id,
\* compared exactly (case-sensitively), and Missing otherwise; there is no third
\* status, so the Covered rows and the Missing rows together are all rows.
C2_CoveredIffHit ==
    pc = "reported" =>
        /\ \A i \in 1..Len(rows) :
            /\ rows[i].coverage \in {"Covered", "Missing"}
            /\ (rows[i].coverage = "Covered")
                  <=> (\E k \in 1..Len(scanned) : scanned[k].id = rows[i].id)
        /\ Cardinality({i \in 1..Len(rows) : rows[i].coverage = "Covered"})
             + Cardinality({i \in 1..Len(rows) : rows[i].coverage = "Missing"})
             = Len(rows)

C2_Witness ==
    /\ pc = "reported"
    /\ \E i, j \in 1..Len(rows) :
        /\ rows[i].id = <<"A">> /\ rows[i].coverage = "Covered"
        /\ rows[j].id = <<"a">> /\ rows[j].coverage = "Missing"

\* C3: the orphan list holds one entry per scanned hit whose id is the id of no
\* node, and nothing else; no node and the single hit X give rows = [] and the one
\* orphan X; no hit gives no orphan and only Missing rows.
C3_OrphansExact ==
    pc = "reported" =>
        /\ Len(orphans) = CountUnmatched(scanned)
        /\ \A k \in 1..Len(scanned) :
            Count(orphans, EntryOf(scanned[k]))
              = (IF Unmatched(scanned[k]) THEN Count(scanned, scanned[k]) ELSE 0)
        /\ (elements = <<>> /\ Len(scanned) = 1 /\ scanned[1].id = <<"X">>)
              => (rows = <<>> /\ orphans = <<EntryOf(scanned[1])>>)
        /\ scanned = <<>>
              => (orphans = <<>> /\ \A i \in 1..Len(rows) : rows[i].coverage = "Missing")

C3_Witness ==
    /\ pc = "reported"
    /\ elements = <<>>
    /\ Len(scanned) = 1 /\ scanned[1].id = <<"X">>
    /\ Len(orphans) = 1 /\ orphans[1].id = <<"X">>

-----------------------------------------------------------------------------
(* The scan of one file alone: every text over the alphabet *)

ScanAlphabet == {OPEN, CLOSE, "A", "B", NL}
ScanName == "tests/a.spec.ts"

InitScan ==
    /\ variant = "-"
    /\ pc = "scanFile"
    /\ docFile = NoFile
    /\ artifacts = <<>>
    /\ refsById = <<>>
    /\ doc = NoDoc
    /\ \E t \in SeqsUpTo(ScanAlphabet, MaxLen) : files = <<[name |-> ScanName, text |-> t]>>
    /\ readable = {ScanName}
    /\ fileIdx = 1
    /\ checked = TRUE
    /\ elements = <<>>
    /\ hitsById = <<>>
    /\ scanned = <<>>
    /\ rows = <<>>
    /\ orphans = <<>>
    /\ formatted = NoFormats
    /\ written = <<>>
    /\ stages = <<>>
    /\ exitCode = -1

CallScanFile ==
    /\ variant = "-"
    /\ pc = "scanFile"
    /\ hitsById' = ScanFile(hitsById, files[fileIdx].name, files[fileIdx].text)
    /\ scanned' = scanned \o ScanList(files[fileIdx].name, files[fileIdx].text)
    /\ pc' = "scannedFile"
    /\ UNCHANGED <<variant, docFile, artifacts, refsById, doc, files, readable, fileIdx, checked,
                   elements, rows, orphans, formatted, written, stages, exitCode>>

SpecScan == InitScan /\ [][CallScanFile]_vars

\* the text of the file scanned and the matches the loop went through
ScanText == files[1].text
ScanMatches == ReMatches(ScanText)

\* position i starts an occurrence of the marker: "[bpmn:", a non-empty run
\* without "]", then "]" at position c
OccursAt(text, i, c) ==
    /\ i >= 1 /\ c <= Len(text) /\ c > i + 1
    /\ text[i] = OPEN
    /\ text[c] = CLOSE
    /\ \A j \in (i + 1)..(c - 1) : text[j] # CLOSE

IsOccurrence(text, i) == \E c \in 1..Len(text) : OccursAt(text, i, c)

Occurrences(text) == { i \in 1..Len(text) : IsOccurrence(text, i) }

HitCount(m) == Len(Flatten([i \in 1..Len(m) |-> m[i].hits]))

\* C4 (as claimed): the line of a hit is 1 + the number of newlines before the
\* marker's start offset.
C4_LineIsOnePlusNewlinesBefore ==
    pc = "scannedFile" =>
        \A k \in 1..Len(scanned) :
            scanned[k].hit.line
              = 1 + Count(SubSeq(ScanText, 1, ScanMatches[k].index - 1), NL)

-----------------------------------------------------------------------------
(* collectBpmnElements alone: every parsed document of at most MaxTree elements *)

OtherTag == <<"x", ":", "task">>
ElemTags == {TaskTag, OtherTag}
RootTags == {<<"bpmn", ":", "definitions">>, <<"definitions">>, <<"x", ":", "definitions">>}

\* the attributes of an element: none, id="", id="A"
AttrOpts == {<<>>, <<[k |-> AtId, v |-> Text(<<>>)]>>, <<[k |-> AtId, v |-> Text(<<"A">>)]>>}
RootAttrOpts == {<<>>, <<[k |-> AtId, v |-> Text(<<"R">>)]>>}

\* the parser keeps one property per tag name: children of one name form an array
RECURSIVE RunLen(_, _)
RunLen(kids, k) ==
    IF kids = <<>> \/ Head(kids).k # k THEN 0 ELSE 1 + RunLen(Tail(kids), k)

RECURSIVE Grouped(_)
Grouped(kids) ==
    IF kids = <<>> THEN <<>>
    ELSE LET n == RunLen(kids, Head(kids).k)
         IN  <<[k |-> Head(kids).k,
                v |-> IF n = 1 THEN Head(kids).v
                      ELSE Arr([j \in 1..n |-> kids[j].v])]>>
             \o Grouped(SubSeq(kids, n + 1, Len(kids)))

\* children of one name are adjacent, so that Grouped gives each name one property
OneRunPerKey(kids) ==
    \A i, j \in 1..Len(kids) :
        (i < j /\ kids[i].k = kids[j].k) => \A h \in i..j : kids[h].k = kids[i].k

RECURSIVE Forests(_), ValuesUpTo(_)
Forests(n) ==
    {<<>>} \cup
    UNION { { <<[k |-> t, v |-> o]>> \o rest :
                t \in ElemTags, o \in ValuesUpTo(s), rest \in Forests(n - s) } :
            s \in 1..n }

ValuesUpTo(s) ==
    {Text(<<"t">>)} \cup
    { Obj(a \o Grouped(f)) :
        a \in AttrOpts, f \in { g \in Forests(s - 1) : OneRunPerKey(g) } }

Roots(n) ==
    { Obj(a \o Grouped(f)) :
        a \in RootAttrOpts, f \in { g \in Forests(n - 1) : OneRunPerKey(g) } }

Docs(n) == { Obj(<<[k |-> t, v |-> r]>>) : t \in RootTags, r \in Roots(n) }

InitExtract ==
    /\ variant = "-"
    /\ pc = "collect"
    /\ docFile = NoFile
    /\ artifacts = <<>>
    /\ refsById = <<>>
    /\ doc \in Docs(MaxTree)
    /\ files = <<>>
    /\ readable = {}
    /\ fileIdx = 0
    /\ checked = FALSE
    /\ elements = <<>>
    /\ hitsById = <<>>
    /\ scanned = <<>>
    /\ rows = <<>>
    /\ orphans = <<>>
    /\ formatted = NoFormats
    /\ written = <<>>
    /\ stages = <<>>
    /\ exitCode = -1

\* const elements = collectBpmnElements(defs)
CallCollect ==
    /\ variant = "-"
    /\ pc = "collect"
    /\ elements' = collectBpmnElements(Defs(doc), <<>>)
    /\ pc' = "collected"
    /\ UNCHANGED <<variant, docFile, artifacts, refsById, doc, files, readable, fileIdx, checked,
                   hitsById, scanned, rows, orphans, formatted, written, stages,
                   exitCode>>

\* buildReport(elements, hitsById) for a scan that found nothing
CallRows ==
    /\ variant = "-"
    /\ pc = "collected"
    /\ rows' = buildReport(elements, hitsById).rows
    /\ orphans' = buildReport(elements, hitsById).orphans
    /\ pc' = "reported"
    /\ UNCHANGED <<variant, docFile, artifacts, refsById, doc, files, readable, fileIdx, checked,
                   elements, hitsById, scanned, formatted, written, stages, exitCode>>

SpecExtract == InitExtract /\ [][CallCollect \/ CallRows]_vars

\* The tree the extractor is given, addressed by paths.  A path is a sequence of
\* steps <<e, j>>: property e of the object, item j of its value (1 when the value
\* is no array).
ItemsOf(v) == IF v.kind = "arr" THEN v.items ELSE <<v>>

RECURSIVE PathsOf(_)
PathsOf(node) ==
    {<<>>} \cup
    UNION { UNION { { <<<<e, j>>>> \o p : p \in PathsOf(ItemsOf(node.entries[e].v)[j]) } :
                    j \in { j \in 1..Len(ItemsOf(node.entries[e].v)) :
                              ItemsOf(node.entries[e].v)[j].kind = "obj" } } :
            e \in { e \in 1..Len(node.entries) : ~IsAttrKey(node.entries[e].k) } }

RECURSIVE NodeAt(_, _)
NodeAt(node, p) ==
    IF p = <<>> THEN node
    ELSE NodeAt(ItemsOf(node.entries[p[1][1]].v)[p[1][2]], Tail(p))

\* the tag of the element at path p: the name of the property that holds it
RECURSIVE TagAt(_, _, _)
TagAt(node, p, rootTag) ==
    IF p = <<>> THEN rootTag
    ELSE TagAt(ItemsOf(node.entries[p[1][1]].v)[p[1][2]], Tail(p),
               node.entries[p[1][1]].k)

StepLess(a, b) == a[1] < b[1] \/ (a[1] = b[1] /\ a[2] < b[2])

\* p comes before q in pre-order: p is a proper prefix of q (an ancestor), or at
\* the first step where they differ p takes the earlier property or item
PreOrderLess(p, q) ==
    \E n \in 1..Len(q) :
        /\ \A i \in 1..(n - 1) : i <= Len(p) /\ p[i] = q[i]
        /\ \/ n = Len(p) + 1
           \/ n <= Len(p) /\ StepLess(p[n], q[n])

\* what main hands to collectBpmnElements
GivenRoot == Defs(doc)

HasIdAttr(node) == Get(node, AtId).kind # "undef"
HasNonEmptyId(node) == Get(node, AtId).kind = "text" /\ Get(node, AtId).text # <<>>

IdPaths == { p \in PathsOf(GivenRoot) : HasNonEmptyId(NodeAt(GivenRoot, p)) }
Rank(p) == 1 + Cardinality({ q \in IdPaths : PreOrderLess(q, p) })

\* C9 (as claimed): one element per node that carries an id attribute.
C9_OnePerIdAttribute ==
    pc = "collected" =>
        Len(elements)
          = Cardinality({ p \in PathsOf(GivenRoot) : HasIdAttr(NodeAt(GivenRoot, p)) })

\* C9 (amended): one element per node that carries a non-empty id attribute, in
\* pre-order: a node before its descendants, siblings in the order the parsed
\* tree lists them.
C9_OnePerNonEmptyIdInPreOrder ==
    pc = "collected" =>
        /\ Len(elements) = Cardinality(IdPaths)
        /\ \A p \in IdPaths :
            /\ Rank(p) <= Len(elements)
            /\ elements[Rank(p)].id = Get(NodeAt(GivenRoot, p), AtId).text
            /\ p # <<>> => elements[Rank(p)].type = TagAt(GivenRoot, p, <<>>)

C9_Witness ==
    /\ pc = "collected"
    /\ \E p, q \in IdPaths : Len(p) = 1 /\ Len(q) = 2 /\ q[1] = p[1]
    /\ \E p, q \in IdPaths : Len(p) = 1 /\ Len(q) = 1 /\ p # q
    /\ Len(elements) >= 3

\* C10 (as claimed): the type of a row is the tag of the element that carries the
\* id with its namespace prefix removed, whatever the prefix, the root included.
C10_TypeIsLocalTagName ==
    pc = "reported" =>
        \A p \in IdPaths :
            /\ Rank(p) <= Len(rows)
            /\ rows[Rank(p)].type
                 = LastSegment(TagAt(GivenRoot, p, doc.entries[1].k))

-----------------------------------------------------------------------------
(* toCSV and the other serializations of the report scripts *)

CsvHeader ==
    <<<<"BPMN ID">>, <<"Name">>, <<"Type">>, <<"Priority">>, <<"Tags">>, <<"Jira">>,
      <<"PlaywrightRefs">>, <<"Figma">>, <<"Tests">>, <<"Coverage">>>>

\* .replace(/"/g, '""')
RECURSIVE DoubleQuotes(_)
DoubleQuotes(v) ==
    IF v = <<>> THEN <<>>
    ELSE (IF Head(v) = "\"" THEN <<"\"", "\"">> ELSE <<Head(v)>>) \o DoubleQuotes(Tail(v))

\* the value between double quotes, its own double quotes left as they are
Esc_NoDoubling(v) == <<"\"">> \o v \o <<"\"">>

\* esc: the value between double quotes, its own double quotes doubled
Esc(v) == <<"\"">> \o DoubleQuotes(v) \o <<"\"">>

CsvLine(fields) == Join([i \in 1..Len(fields) |-> Esc(fields[i])], <<",">>)

RowFields(r) ==
    <<r.id, r.name, r.type, r.priority, r.tags, r.jira, r.playwrightRefs, r.figma,
      r.tests, <<r.coverage>>>>

toCSV(rs) ==
    Join(<<CsvLine(CsvHeader)>> \o [i \in 1..Len(rs) |-> CsvLine(RowFields(rs[i]))],
         <<NL>>)

\* the row object as it is serialized: hits is a local of buildReport, no field
PublicRow(r) ==
    [id |-> r.id, name |-> r.name, type |-> r.type, priority |-> r.priority,
     tags |-> r.tags, jira |-> r.jira, playwrightRefs |-> r.playwrightRefs,
     figma |-> r.figma, tests |-> r.tests, coverage |-> r.coverage]

\* JSON.stringify({ rows, orphans }, null, 2)
ToJson(rs, os) == [rows |-> [i \in 1..Len(rs) |-> PublicRow(rs[i])], orphans |-> os]

\* what new Date() can return when a page is built
Clocks == {"day1", "day2"}

\* toHTML(rows, orphans): the table cells of the rows and of the orphans, and the
\* badge with new Date().toISOString()
toHTML(rs, os, now) ==
    [rows |-> [i \in 1..Len(rs) |-> PublicRow(rs[i])], orphans |-> os, generated |-> now]

-----------------------------------------------------------------------------
(* The Tasks-only generator                                                *)
(*                                                                         *)
(* The document is read as text.  Its markup is a sequence of tags and     *)
(* text runs; the tree is what parseXML (preserveOrder) returns for it.    *)

XElem(tag, id, name, kids) ==
    [tag |-> tag, id |-> id, name |-> name, kids |-> kids, text |-> <<>>]
XText(t) == [tag |-> <<"#text">>, id |-> <<>>, name |-> <<>>, kids |-> <<>>, text |-> t]

OpenTag(n) == [t |-> "open", tag |-> n.tag, id |-> n.id, name |-> n.name, text |-> <<>>]
CloseTag(n) == [t |-> "close", tag |-> n.tag, id |-> <<>>, name |-> <<>>, text |-> <<>>]
TextRun(n) == [t |-> "text", tag |-> <<>>, id |-> <<>>, name |-> <<>>, text |-> n.text]

\* the markup of a tree: what the file holds when the parser returns the tree
RECURSIVE Markup(_)
Markup(nodes) ==
    IF nodes = <<>> THEN <<>>
    ELSE (IF Head(nodes).tag = <<"#text">> THEN <<TextRun(Head(nodes))>>
          ELSE <<OpenTag(Head(nodes))>> \o Markup(Head(nodes).kids)
               \o <<CloseTag(Head(nodes))>>)
         \o Markup(Tail(nodes))

\* String.prototype.toLowerCase on the pieces of a tag name
LowerPiece(t) ==
    CASE t = "Task" -> "task"
      [] t = "TASK" -> "task"
      [] t = "User" -> "user"
      [] t = "Event" -> "event"
      [] OTHER -> t

\* the comparison made without lower-casing the name
LocalEndsWithTask_CaseSensitive(tag) ==
    LET local == LastSegment(tag)
    IN  local # <<>> /\ local[Len(local)] = "task"

\* tag.split(':').pop().toLowerCase().endsWith('task')
LocalEndsWithTask(tag) ==
    LET local == LastSegment(tag)
    IN  local # <<>> /\ LowerPiece(local[Len(local)]) = "task"

\* walk(nodes) of extractTasks, parser path
RECURSIVE WalkTasks(_)
WalkTasks(nodes) ==
    IF nodes = <<>> THEN <<>>
    ELSE LET n == Head(nodes)
         IN  (IF n.tag = <<>> THEN <<>>
              ELSE (IF n.id # <<>> /\ LocalEndsWithTask(n.tag)
                    THEN <<[id |-> n.id, name |-> n.name, tag |-> n.tag]>>
                    ELSE <<>>)
                   \o WalkTasks(n.kids))
             \o WalkTasks(Tail(nodes))

\* the fallback: /<([a-zA-Z0-9:-]*task)\b([^>]*)>/g over the markup, an opening
\* tag whose name ends in lower-case "task" and that has an id
RECURSIVE RegexTasks(_)
RegexTasks(xml) ==
    IF xml = <<>> THEN <<>>
    ELSE (IF /\ Head(xml).t = "open"
             /\ Head(xml).tag # <<>>
             /\ Head(xml).tag[Len(Head(xml).tag)] = "task"
             /\ Head(xml).id # <<>>
          THEN <<[id |-> Head(xml).id, name |-> Head(xml).name, tag |-> Head(xml).tag]>>
          ELSE <<>>)
         \o RegexTasks(Tail(xml))

extractTasks(file, withParser) ==
    IF withParser THEN WalkTasks(file.tree) ELSE RegexTasks(file.xml)

\* first position >= i of a closing tag named tag, or 0
RECURSIVE CloseFrom(_, _, _)
CloseFrom(xml, tag, i) ==
    IF i > Len(xml) THEN 0
    ELSE IF xml[i].t = "close" /\ xml[i].tag = tag THEN i
    ELSE CloseFrom(xml, tag, i + 1)

\* first position >= i of an opening tag named tag, or 0
RECURSIVE OpenFrom(_, _, _)
OpenFrom(xml, tag, i) ==
    IF i > Len(xml) THEN 0
    ELSE IF xml[i].t = "open" /\ xml[i].tag = tag THEN i
    ELSE OpenFrom(xml, tag, i + 1)

\* the text of a stretch of markup, tags included
RawText(xml) ==
    Flatten([i \in 1..Len(xml) |->
        IF xml[i].t = "text" THEN xml[i].text ELSE <<"<">> \o xml[i].tag \o <<">">>])

\* refRegex over ext: <test:playwrightRef> without attributes up to the first
\* closing tag of that name; the trimmed non-empty contents
PlaywrightRefTag == <<"test", ":", "playwrightRef">>

RECURSIVE RefsFrom(_, _)
RefsFrom(ext, i) ==
    LET o == OpenFrom(ext, PlaywrightRefTag, i)
    IN  IF o = 0 THEN <<>>
        ELSE IF ext[o].id # <<>> \/ ext[o].name # <<>> THEN RefsFrom(ext, o + 1)
        ELSE LET c == CloseFrom(ext, PlaywrightRefTag, o + 1)
             IN  IF c = 0 THEN <<>>
                 ELSE LET v == Trim(RawText(SubSeq(ext, o + 1, c - 1)))
                      IN  (IF v # <<>> THEN <<v>> ELSE <<>>) \o RefsFrom(ext, c + 1)

\* inner.match(/<bpmn:extensionElements[^>]*>([\s\S]*?)<\/bpmn:extensionElements>/)
\* and the refs inside it
RefsOfInner(inner) ==
    LET o == OpenFrom(inner, BpmnExt, 1)
        c == IF o = 0 THEN 0 ELSE CloseFrom(inner, BpmnExt, o + 1)
    IN  IF c = 0 THEN <<>> ELSE RefsFrom(SubSeq(inner, o + 1, c - 1), 1)

\* elementRegex: an opening tag with an id up to the first closing tag of the
\* same name; the search goes on behind that closing tag
RECURSIVE RefsMapFrom(_, _, _)
RefsMapFrom(m, xml, i) ==
    IF i > Len(xml) THEN m
    ELSE IF xml[i].t = "open" /\ xml[i].id # <<>> /\ CloseFrom(xml, xml[i].tag, i + 1) # 0
    THEN LET c == CloseFrom(xml, xml[i].tag, i + 1)
             list == RefsOfInner(SubSeq(xml, i + 1, c - 1))
         IN  RefsMapFrom(IF list # <<>> THEN MapSet(m, xml[i].id, list) ELSE m, xml, c + 1)
    ELSE RefsMapFrom(m, xml, i + 1)

extractPlaywrightRefsById(xml) == RefsMapFrom(<<>>, xml, 1)

\* /\.(spec\.)?(ts|js|tsx|jsx)$/.test(f), on the names the file system holds
TaskFilterNames == {"tests/a.spec.ts", "tests/b.spec.ts", "tests/helpers/bpmn.ts"}

\* glob tests/**/*.{spec,test}.{ts,tsx,js,jsx}, on the names the file system holds
GlobNames == {"tests/a.spec.ts", "tests/b.spec.ts"}

RECURSIVE SelectNames(_, _)
SelectNames(fs, names) ==
    IF fs = <<>> THEN <<>>
    ELSE (IF Head(fs).name \in names THEN <<Head(fs)>> ELSE <<>>)
         \o SelectNames(Tail(fs), names)

\* new Map(ids.map(id => [id, []]))
RECURSIVE EmptyMarkers(_, _)
EmptyMarkers(m, ids) ==
    IF ids = <<>> THEN m ELSE EmptyMarkers(MapSet(m, Head(ids), <<>>), Tail(ids))

\* for (const id of ids) if (txt.includes('[bpmn:' + id + ']')) markers.get(id).push(rel)
RECURSIVE MarkFile(_, _, _, _)
MarkFile(m, ids, rel, txt) ==
    IF ids = <<>> THEN m
    ELSE MarkFile(IF Includes(txt, <<OPEN>> \o Head(ids) \o <<CLOSE>>)
                  THEN MapSet(m, Head(ids), Append(MapGetOrEmpty(m, Head(ids)), rel))
                  ELSE m,
                  Tail(ids), rel, txt)

\* readTextIfExists: the text, or '' when the file cannot be read
ReadTextIfExists(f, canRead) == IF f.name \in canRead THEN f.text ELSE <<>>

\* a.id.localeCompare(b.id) < 0, on the identifiers of the documents
IdRank(id) ==
    CASE id = <<"a">> -> 1
      [] id = <<"A">> -> 2
      [] id = <<"B">> -> 3
      [] OTHER -> 4

RECURSIVE InsertSorted(_, _)
InsertSorted(sorted, r) ==
    IF sorted = <<>> THEN <<r>>
    ELSE IF IdRank(r.id) < IdRank(Head(sorted).id) THEN <<r>> \o sorted
    ELSE <<Head(sorted)>> \o InsertSorted(Tail(sorted), r)

\* Array.prototype.sort with the comparator: stable
RECURSIVE SortById(_)
SortById(rs) ==
    IF rs = <<>> THEN <<>>
    ELSE InsertSorted(SortById(SubSeq(rs, 1, Len(rs) - 1)), rs[Len(rs)])

\* a row whose hasTests looks at the marker files only
TaskRow_MarkersOnly(t, markers, refs) ==
    [id |-> t.id,
     name |-> t.name,
     type |-> t.tag,
     hasTests |-> Len(MapGetOrEmpty(markers, t.id)) > 0,
     testFiles |-> MapGetOrEmpty(markers, t.id),
     playwrightRefs |-> MapGetOrEmpty(refs, t.id)]

\* one row of the Tasks-only report
TaskRow(t, markers, refs) ==
    [id |-> t.id,
     name |-> t.name,
     type |-> t.tag,
     hasTests |-> Len(MapGetOrEmpty(markers, t.id)) > 0
                    \/ Len(MapGetOrEmpty(refs, t.id)) > 0,
     testFiles |-> MapGetOrEmpty(markers, t.id),
     playwrightRefs |-> MapGetOrEmpty(refs, t.id)]

TaskRows(tasks, markers, refs) ==
    SortById([i \in 1..Len(tasks) |-> TaskRow(tasks[i], markers, refs)])

\* { summary: { total, covered, uncovered }, items: rows }
TaskSummary(rs) ==
    LET covered == Cardinality({i \in 1..Len(rs) : rs[i].hasTests})
    IN  [total |-> Len(rs), covered |-> covered, uncovered |-> Len(rs) - covered]


\* toCSV of the Tasks-only generator: the header is not quoted
TaskCsv(rs) ==
    Join(<<<<"bpmnId,name,type,hasTests,testFiles,playwrightRefs">>>>
         \o [i \in 1..Len(rs) |->
               Join(<<Esc(rs[i].id), Esc(rs[i].name), Esc(rs[i].type),
                      Esc(IF rs[i].hasTests THEN <<"yes">> ELSE <<"no">>),
                      Esc(Join([k \in 1..Len(rs[i].testFiles) |-> <<rs[i].testFiles[k]>>],
                               <<NL>>)),
                      Esc(Join(rs[i].playwrightRefs, <<NL>>))>>, <<",">>)],
         <<NL>>)

-----------------------------------------------------------------------------
(* main: the three programs, step by step, and the file system around them *)

ReportVariants == {"v1", "v2"}
TaskVariants == {"tasks", "tasksRegex"}
Variants == ReportVariants \cup TaskVariants

StageOrder == <<"load", "extract", "scan", "reconcile", "format", "write">>

\* the output paths in the order main writes them
OutTargets(v) ==
    CASE v = "v1" ->
            <<[path |-> "bpmn-test-report.csv", kind |-> "csv"],
              [path |-> "bpmn-test-report.html", kind |-> "html"],
              [path |-> "bpmn-test-report.json", kind |-> "json"]>>
      [] v = "v2" ->
            <<[path |-> "bpmn-test-report.csv", kind |-> "csv"],
              [path |-> "bpmn-test-report.html", kind |-> "html"],
              [path |-> "bpmn-test-report.json", kind |-> "json"],
              [path |-> "reports/coverage/bpmn-test-report.csv", kind |-> "csv"],
              [path |-> "reports/coverage/index.html", kind |-> "html"],
              [path |-> "reports/coverage/bpmn-test-report.json", kind |-> "json"]>>
      [] OTHER ->
            <<[path |-> "reports/coverage/bpmn-test-report.json", kind |-> "json"],
              [path |-> "reports/coverage/bpmn-test-report.csv", kind |-> "csv"],
              [path |-> "reports/coverage/index.html", kind |-> "html"]>>

\* the documents and artifact files of the runs
IdAttr(i) == [k |-> AtId, v |-> Text(i)]

ReportTrees ==
    { Obj(<<[k |-> <<"bpmn", ":", "definitions">>,
            v |-> Obj(<<IdAttr(<<"R">>),
                        [k |-> TaskTag, v |-> Obj(<<IdAttr(<<"A">>)>>)]>>)]>>),
      Obj(<<[k |-> <<"definitions">>,
            v |-> Obj(<<[k |-> TaskTag,
                         v |-> Arr(<<Obj(<<IdAttr(<<"A">>)>>),
                                     Obj(<<IdAttr(<<"a">>)>>)>>)]>>)]>>) }

TaskTrees ==
    { <<XElem(<<"bpmn", ":", "definitions">>, <<>>, <<>>,
              <<XElem(<<"bpmn", ":", "user", "Task">>, <<"B">>, <<>>, <<>>),
                XElem(<<"bpmn", ":", "task">>, <<"A">>, <<>>,
                      <<XElem(BpmnExt, <<>>, <<>>,
                              <<XElem(PlaywrightRefTag, <<>>, <<>>,
                                      <<XText(<<"t1">>)>>)>>)>>)>>)>>,
      <<XElem(<<"bpmn", ":", "definitions">>, <<"R">>, <<>>,
              <<XElem(<<"bpmn", ":", "start", "Event">>, <<"a">>, <<>>, <<>>),
                XElem(<<"bpmn", ":", "task">>, <<"A">>, <<>>, <<>>)>>)>> }

DocFiles(v) ==
    {NoFile} \cup
    IF v \in ReportVariants
    THEN { [exists |-> TRUE, parses |-> ok, tree |-> t, xml |-> <<>>] :
             ok \in BOOLEAN, t \in ReportTrees }
    ELSE { [exists |-> TRUE, parses |-> TRUE, tree |-> <<>>, xml |-> <<>>] } \cup
         { [exists |-> TRUE, parses |-> ok, tree |-> t, xml |-> Markup(t)] :
             ok \in BOOLEAN, t \in TaskTrees }

ArtifactFiles ==
    { [name |-> "tests/a.spec.ts", text |-> <<OPEN, "A", CLOSE>>],
      [name |-> "tests/b.spec.ts", text |-> <<NL, OPEN, "X", CLOSE, OPEN, "A", CLOSE>>],
      [name |-> "tests/helpers/bpmn.ts", text |-> <<OPEN, "B", CLOSE>>] }

ArtifactLists(n) ==
    { fs \in SeqsUpTo(ArtifactFiles, n) :
        \A i, j \in 1..Len(fs) : i # j => fs[i].name # fs[j].name }

NamesOf(fs) == { fs[i].name : i \in 1..Len(fs) }

Init ==
    /\ variant \in Variants
    /\ pc = "start"
    /\ docFile \in DocFiles(variant)
    /\ artifacts \in ArtifactLists(MaxFiles)
    /\ readable = NamesOf(artifacts)
    /\ doc = NoDoc
    /\ files = <<>>
    /\ fileIdx = 0
    /\ checked = FALSE
    /\ elements = <<>>
    /\ hitsById = <<>>
    /\ refsById = <<>>
    /\ scanned = <<>>
    /\ rows = <<>>
    /\ orphans = <<>>
    /\ formatted = NoFormats
    /\ written = <<>>
    /\ stages = <<>>
    /\ exitCode = -1

\* the process ends, but with the code of a successful run
Abort_ExitZero ==
    /\ pc' = "exited"
    /\ exitCode' = 0

\* process.exit(1), and an exception nobody catches (or the final catch of the
\* Tasks-only generator): the run is over, the exit code is 1
Abort ==
    /\ pc' = "exited"
    /\ exitCode' = 1

\* the file system: the document is removed after existsSync saw it
DocVanishes ==
    /\ variant \in ReportVariants
    /\ pc = "load"
    /\ docFile.exists
    /\ docFile' = [docFile EXCEPT !.exists = FALSE]
    /\ UNCHANGED <<variant, pc, artifacts, doc, files, readable, fileIdx, checked,
                   elements, hitsById, refsById, scanned, rows, orphans, formatted,
                   written, stages, exitCode>>

\* the file system: an enumerated artifact file is removed while the scan runs
FileVanishes ==
    /\ pc = "scan"
    /\ \E n \in readable \cap NamesOf(files) :
        readable' = readable \ {n}
    /\ UNCHANGED <<variant, pc, docFile, artifacts, doc, files, fileIdx, checked,
                   elements, hitsById, refsById, scanned, rows, orphans, formatted,
                   written, stages, exitCode>>

\* if (!fs.existsSync(BPMN_PATH)) { console.error(...); process.exit(1); }
MainCheckDocument ==
    /\ variant \in ReportVariants
    /\ pc = "start"
    /\ IF docFile.exists
       THEN pc' = "load" /\ UNCHANGED exitCode
       ELSE Abort
    /\ UNCHANGED <<variant, docFile, artifacts, doc, files, readable, fileIdx, checked,
                   elements, hitsById, refsById, scanned, rows, orphans, formatted,
                   written, stages>>

\* const bpmn = loadBpmn(BPMN_PATH): readFileSync and parser.parse may throw
MainLoad ==
    /\ variant \in ReportVariants
    /\ pc = "load"
    /\ IF docFile.exists /\ docFile.parses
       THEN /\ doc' = docFile.tree
            /\ stages' = Append(stages, "load")
            /\ pc' = "extract"
            /\ UNCHANGED exitCode
       ELSE Abort /\ UNCHANGED <<doc, stages>>
    /\ UNCHANGED <<variant, docFile, artifacts, files, readable, fileIdx, checked,
                   elements, hitsById, refsById, scanned, rows, orphans, formatted,
                   written>>

\* const defs = ...; const elements = collectBpmnElements(defs)
MainExtract ==
    /\ variant \in ReportVariants
    /\ pc = "extract"
    /\ elements' = collectBpmnElements(Defs(doc), <<>>)
    /\ stages' = Append(stages, "extract")
    /\ pc' = "enumerate"
    /\ UNCHANGED <<variant, docFile, artifacts, doc, files, readable, fileIdx, checked,
                   hitsById, refsById, scanned, rows, orphans, formatted, written,
                   exitCode>>

\* scanTestsForBpmnTags: const files = glob.sync(TEST_GLOB, ...)
ScanEnumerate ==
    /\ variant \in ReportVariants
    /\ pc = "enumerate"
    /\ files' = SelectNames(artifacts, GlobNames)
    /\ fileIdx' = 1
    /\ checked' = FALSE
    /\ pc' = "scan"
    /\ UNCHANGED <<variant, docFile, artifacts, doc, readable, elements, hitsById,
                   refsById, scanned, rows, orphans, formatted, written, stages,
                   exitCode>>

\* v2 only: if (!fs.existsSync(full)) continue;
ScanCheckExists ==
    /\ variant = "v2"
    /\ pc = "scan"
    /\ fileIdx <= Len(files)
    /\ ~checked
    /\ IF files[fileIdx].name \in readable
       THEN checked' = TRUE /\ UNCHANGED fileIdx
       ELSE fileIdx' = fileIdx + 1 /\ UNCHANGED checked
    /\ UNCHANGED <<variant, pc, docFile, artifacts, doc, files, readable, elements,
                   hitsById, refsById, scanned, rows, orphans, formatted, written,
                   stages, exitCode>>

\* const text = readText(full) (v1: fs.readFileSync), which throws when the file
\* cannot be read, and the rest of the loop body
ScanReadFile ==
    /\ variant \in ReportVariants
    /\ pc = "scan"
    /\ fileIdx <= Len(files)
    /\ variant = "v2" => checked
    /\ IF files[fileIdx].name \in readable
       THEN /\ hitsById' = ScanFile(hitsById, files[fileIdx].name, files[fileIdx].text)
            /\ scanned' = scanned \o ScanList(files[fileIdx].name, files[fileIdx].text)
            /\ fileIdx' = fileIdx + 1
            /\ checked' = FALSE
            /\ UNCHANGED <<pc, exitCode>>
       ELSE Abort /\ UNCHANGED <<hitsById, scanned, fileIdx, checked>>
    /\ UNCHANGED <<variant, docFile, artifacts, doc, files, readable, elements,
                   refsById, rows, orphans, formatted, written, stages>>

\* the for loop is over: return { hitsById, titlesByFile }
ScanReturn ==
    /\ pc = "scan"
    /\ fileIdx > Len(files)
    /\ stages' = Append(stages, "scan")
    /\ pc' = "reconcile"
    /\ UNCHANGED <<variant, docFile, artifacts, doc, files, readable, fileIdx, checked,
                   elements, hitsById, refsById, scanned, rows, orphans, formatted,
                   written, exitCode>>

\* the CSV file is written as soon as the rows exist, before the other
\* serializations are computed
MainBuildReport_WritesCsv ==
    /\ variant \in ReportVariants
    /\ pc = "reconcile"
    /\ rows' = buildReport(elements, hitsById).rows
    /\ orphans' = buildReport(elements, hitsById).orphans
    /\ written' = <<[path |-> "bpmn-test-report.csv",
                     content |-> toCSV(buildReport(elements, hitsById).rows)]>>
    /\ stages' = Append(stages, "reconcile")
    /\ pc' = "format"
    /\ UNCHANGED <<variant, docFile, artifacts, doc, files, readable, fileIdx, checked,
                   elements, hitsById, refsById, scanned, formatted, exitCode>>

\* const { rows, orphans } = buildReport(elements, hitsById)
MainBuildReport ==
    /\ variant \in ReportVariants
    /\ pc = "reconcile"
    /\ rows' = buildReport(elements, hitsById).rows
    /\ orphans' = buildReport(elements, hitsById).orphans
    /\ stages' = Append(stages, "reconcile")
    /\ pc' = "format"
    /\ UNCHANGED <<variant, docFile, artifacts, doc, files, readable, fileIdx, checked,
                   elements, hitsById, refsById, scanned, formatted, written, exitCode>>

\* the structured data carries the time it was generated at
MainFormat_Stamped ==
    /\ variant \in ReportVariants
    /\ pc = "format"
    /\ \E now \in Clocks :
          formatted' = [csv |-> toCSV(rows), html |-> toHTML(rows, orphans, now),
                        json |-> [rows |-> ToJson(rows, orphans).rows,
                                  orphans |-> ToJson(rows, orphans).orphans,
                                  generated |-> now]]
    /\ stages' = Append(stages, "format")
    /\ pc' = "write"
    /\ UNCHANGED <<variant, docFile, artifacts, doc, files, readable, fileIdx, checked,
                   elements, hitsById, refsById, scanned, rows, orphans, written,
                   exitCode>>

\* const csv = toCSV(rows); const html = toHTML(rows, orphans); const json = ...
MainFormat ==
    /\ variant \in ReportVariants
    /\ pc = "format"
    /\ \E now \in Clocks :
          formatted' = [csv |-> toCSV(rows), html |-> toHTML(rows, orphans, now),
                        json |-> ToJson(rows, orphans)]
    /\ stages' = Append(stages, "format")
    /\ pc' = "write"
    /\ UNCHANGED <<variant, docFile, artifacts, doc, files, readable, fileIdx, checked,
                   elements, hitsById, refsById, scanned, rows, orphans, written,
                   exitCode>>

\* the next writeFileSync / writeText, or its exception; after the last one the
\* summary is logged and the process ends with code 0
MainWrite ==
    /\ variant \in ReportVariants
    /\ pc = "write"
    /\ LET targets == OutTargets(variant)
           next == targets[Len(written) + 1]
       IN  \/ /\ written' = Append(written, [path |-> next.path,
                                             content |-> formatted[next.kind]])
              /\ IF Len(written) + 1 = Len(targets)
                 THEN stages' = Append(stages, "write") /\ pc' = "done" /\ exitCode' = 0
                 ELSE UNCHANGED <<stages, pc, exitCode>>
           \/ Abort /\ UNCHANGED <<written, stages>>
    /\ UNCHANGED <<variant, docFile, artifacts, doc, files, readable, fileIdx, checked,
                   elements, hitsById, refsById, scanned, rows, orphans, formatted>>

\* Tasks-only: await ensureDir(OUT_DIR)
TasksEnsureDir ==
    /\ variant \in TaskVariants
    /\ pc = "start"
    /\ pc' = "load"
    /\ UNCHANGED <<variant, docFile, artifacts, doc, files, readable, fileIdx, checked,
                   elements, hitsById, refsById, scanned, rows, orphans, formatted,
                   written, stages, exitCode>>

\* Tasks-only: const bpmnXML = await readTextIfExists(BPMN_PATH);
\* if (!bpmnXML) { console.error(...); process.exit(1); }
TasksLoad ==
    /\ variant \in TaskVariants
    /\ pc = "load"
    /\ IF docFile.exists /\ docFile.xml # <<>>
       THEN /\ doc' = [tree |-> docFile.tree, xml |-> docFile.xml, parses |-> docFile.parses]
            /\ stages' = Append(stages, "load")
            /\ pc' = "extract"
            /\ UNCHANGED exitCode
       ELSE Abort /\ UNCHANGED <<doc, stages>>
    /\ UNCHANGED <<variant, docFile, artifacts, files, readable, fileIdx, checked,
                   elements, hitsById, refsById, scanned, rows, orphans, formatted,
                   written>>

\* Tasks-only: const tasks = extractTasks(bpmnXML) (the parser may throw);
\* const refsById = extractPlaywrightRefsById(bpmnXML)
TasksExtract ==
    /\ variant \in TaskVariants
    /\ pc = "extract"
    /\ IF variant = "tasks" /\ ~doc.parses
       THEN Abort /\ UNCHANGED <<elements, refsById, stages>>
       ELSE /\ elements' = extractTasks(doc, variant = "tasks")
            /\ refsById' = extractPlaywrightRefsById(doc.xml)
            /\ stages' = Append(stages, "extract")
            /\ pc' = "enumerate"
            /\ UNCHANGED exitCode
    /\ UNCHANGED <<variant, docFile, artifacts, doc, files, readable, fileIdx, checked,
                   hitsById, scanned, rows, orphans, formatted, written>>

TaskIds == [i \in 1..Len(elements) |-> elements[i].id]

\* Tasks-only, scanTestMarkers: listFilesRec, the filter, the empty Map
TasksEnumerate ==
    /\ variant \in TaskVariants
    /\ pc = "enumerate"
    /\ files' = SelectNames(artifacts, TaskFilterNames)
    /\ hitsById' = EmptyMarkers(<<>>, TaskIds)
    /\ fileIdx' = 1
    /\ pc' = "scan"
    /\ UNCHANGED <<variant, docFile, artifacts, doc, readable, checked, elements,
                   refsById, scanned, rows, orphans, formatted, written, stages,
                   exitCode>>

\* Tasks-only, scanTestMarkers: one turn of for (const f of files)
TasksScanFile ==
    /\ variant \in TaskVariants
    /\ pc = "scan"
    /\ fileIdx <= Len(files)
    /\ hitsById' = MarkFile(hitsById, TaskIds, files[fileIdx].name,
                            ReadTextIfExists(files[fileIdx], readable))
    /\ fileIdx' = fileIdx + 1
    /\ UNCHANGED <<variant, pc, docFile, artifacts, doc, files, readable, checked,
                   elements, refsById, scanned, rows, orphans, formatted, written,
                   stages, exitCode>>

\* Tasks-only: const rows = tasks.map(...).sort(...); total, covered, uncovered
TasksBuildRows ==
    /\ variant \in TaskVariants
    /\ pc = "reconcile"
    /\ rows' = TaskRows(elements, hitsById, refsById)
    /\ stages' = Append(stages, "reconcile")
    /\ pc' = "write"
    /\ UNCHANGED <<variant, docFile, artifacts, doc, files, readable, fileIdx, checked,
                   elements, hitsById, refsById, scanned, orphans, formatted, written,
                   exitCode>>

\* what the Tasks-only generator passes to the next fs.writeFile
TaskContent(kind, now) ==
    CASE kind = "json" -> [summary |-> TaskSummary(rows), items |-> rows]
      [] kind = "csv" -> TaskCsv(rows)
      [] OTHER -> [rows |-> rows, summary |-> TaskSummary(rows), generated |-> now]

\* Tasks-only: the next await fs.writeFile(path, <serialization>), the
\* serialization computed in the call; or its exception
TasksWrite ==
    /\ variant \in TaskVariants
    /\ pc = "write"
    /\ LET targets == OutTargets(variant)
           next == targets[Len(written) + 1]
       IN  \/ /\ \E now \in Clocks :
                    /\ formatted' = [formatted EXCEPT
                                        ![next.kind] = TaskContent(next.kind, now)]
                    /\ written' = Append(written,
                                         [path |-> next.path,
                                          content |-> TaskContent(next.kind, now)])
              /\ IF Len(written) + 1 = Len(targets)
                 THEN /\ stages' = stages \o <<"format", "write">>
                      /\ pc' = "done"
                      /\ exitCode' = 0
                 ELSE UNCHANGED <<stages, pc, exitCode>>
           \/ Abort /\ UNCHANGED <<formatted, written, stages>>
    /\ UNCHANGED <<variant, docFile, artifacts, doc, files, readable, fileIdx, checked,
                   elements, hitsById, refsById, scanned, rows, orphans>>

Next ==
    \/ DocVanishes
    \/ FileVanishes
    \/ MainCheckDocument
    \/ MainLoad
    \/ MainExtract
    \/ ScanEnumerate
    \/ ScanCheckExists
    \/ ScanReadFile
    \/ ScanReturn
    \/ MainBuildReport
    \/ MainFormat
    \/ MainWrite
    \/ TasksEnsureDir
    \/ TasksLoad
    \/ TasksExtract
    \/ TasksEnumerate
    \/ TasksScanFile
    \/ TasksBuildRows
    \/ TasksWrite

Spec == Init /\ [][Next]_vars

-----------------------------------------------------------------------------
(* Claims about a whole run *)

Range(q) == { q[i] : i \in 1..Len(q) }

IsPrefix(q, r) == Len(q) <= Len(r) /\ \A i \in 1..Len(q) : q[i] = r[i]

NothingDone ==
    /\ stages = <<>>
    /\ doc = NoDoc
    /\ elements = <<>>
    /\ files = <<>>
    /\ hitsById = <<>>
    /\ scanned = <<>>
    /\ rows = <<>>
    /\ written = <<>>

\* while the document file is missing, the run has done nothing, is at its
\* existence check or over, and never has the exit code 0
MissingDocumentState ==
    ~docFile.exists =>
        /\ pc \in {"start", "load", "exited"}
        /\ NothingDone
        /\ exitCode # 0
        /\ pc = "exited" => exitCode = 1

\* a step taken while the document file is missing ends the run with exit code 1
\* (the Tasks-only generator first creates its output directory)
MissingDocumentStep ==
    (~docFile.exists /\ pc # "exited") =>
        \/ pc' = "exited" /\ exitCode' = 1 /\ written' = <<>> /\ stages' = <<>>
        \/ variant \in TaskVariants /\ pc = "start" /\ pc' = "load" /\ written' = <<>>

\* C6: when the document file does not exist the run ends with a non-zero exit
\* code, having parsed, extracted and scanned nothing and written no output file.
C6_MissingDocumentExitsNonZero ==
    [](MissingDocumentState) /\ [][MissingDocumentStep]_vars

C6_Witness ==
    /\ pc = "exited"
    /\ ~docFile.exists
    /\ artifacts # <<>>
    /\ exitCode = 1
    /\ NothingDone

\* C7 (as claimed): the stages run in the order load, extract, scan, reconcile,
\* format, write, and no output file is written before all the stages before the
\* write have completed.
C7_NoWriteBeforeFormatCompletes ==
    /\ IsPrefix(stages, StageOrder)
    /\ written # <<>> =>
          {"load", "extract", "scan", "reconcile", "format"} \subseteq Range(stages)
    /\ (pc = "exited" /\ "reconcile" \notin Range(stages)) => written = <<>>

\* C7 (amended): the stages run in that order and no output file is written
\* before load, extract, scan and reconcile have completed, so a run that aborts in
\* one of them leaves no output file.  The report scripts compute all
\* serializations before the first write; the Tasks-only generator computes each
\* serialization in the call that writes it.
C7_NoWriteBeforeReconcileCompletes ==
    /\ IsPrefix(stages, StageOrder)
    /\ written # <<>> =>
          {"load", "extract", "scan", "reconcile"} \subseteq Range(stages)
    /\ (variant \in ReportVariants /\ written # <<>>) => "format" \in Range(stages)
    /\ \A i \in 1..Len(written) :
          /\ written[i].path = OutTargets(variant)[i].path
          /\ written[i].content = formatted[OutTargets(variant)[i].kind]
    /\ (pc = "exited" /\ "reconcile" \notin Range(stages)) => written = <<>>

C7_Witness ==
    /\ pc = "exited"
    /\ "extract" \in Range(stages)
    /\ "scan" \notin Range(stages)
    /\ scanned # <<>>
    /\ written = <<>>

\* C8 (as claimed): an enumerated file that cannot be read any more when its turn
\* comes is skipped: the run does not end in the scan, and the hits of the files
\* that can be read are all produced.
C8_UnreadableFileIsSkipped ==
    /\ ~(pc = "exited" /\ "extract" \in Range(stages) /\ "scan" \notin Range(stages))
    /\ (variant \in ReportVariants /\ "scan" \in Range(stages)) =>
          \A i \in 1..Len(files) :
              files[i].name \in readable =>
                  \A e \in Range(ScanList(files[i].name, files[i].text)) :
                      Count(scanned, e) > 0

-----------------------------------------------------------------------------
(* The metadata of one element: every extensionElements child of at most
   MaxMetaDepth levels *)

MaxMetaDepth == 3

OtherExt == <<"x", ":", "extensionElements">>
ExtKeys == {BpmnExt, PlainExt, OtherExt}

PriorityKey == <<"test", ":", "priority">>
VariantKey == <<"variant">>
TagsKey == <<"test", ":", "tags">>
JiraKey == <<"jiraKeys">>
UnusedKey == <<"custom", ":", "unused">>
GroupKey == <<"test", ":", "meta">>
MetaKeys == {PriorityKey, VariantKey, TagsKey, JiraKey, UnusedKey, GroupKey}

\* the text of an element as the parser returns it: trimmed, "" for an empty element
MetaTexts ==
    {<<>>, <<"P1">>, <<"a", ",", " ", "b", "|", "c">>, <<",", "a", "|", "|">>}

\* an element without child elements is its text; the same tag twice is an array
MetaLeaves ==
    { Text(t) : t \in MetaTexts } \cup
    { Arr(<<Text(t), Text(u)>>) : t, u \in MetaTexts }

RECURSIVE MetaValues(_)
MetaValues(d) ==
    IF d = 0 THEN MetaLeaves
    ELSE MetaLeaves \cup
         { Obj(<<[k |-> k, v |-> v]>>) : k \in MetaKeys, v \in MetaValues(d - 1) }

\* <definitions><bpmn:task id="A"> with or without an extensionElements child
MetaNodes(d) ==
    { Obj(<<[k |-> AtId, v |-> Text(<<"A">>)]>>) } \cup
    { Obj(<<[k |-> AtId, v |-> Text(<<"A">>)], [k |-> e, v |-> x]>>) :
        e \in ExtKeys, x \in MetaValues(d) }

MetaDocs(d) ==
    { Obj(<<[k |-> <<"definitions">>, v |-> Obj(<<[k |-> TaskTag, v |-> n]>>)]>>) :
        n \in MetaNodes(d) }

InitMeta ==
    /\ variant = "-"
    /\ pc = "collect"
    /\ docFile = NoFile
    /\ artifacts = <<>>
    /\ refsById = <<>>
    /\ doc \in MetaDocs(MaxMetaDepth)
    /\ files = <<>>
    /\ readable = {}
    /\ fileIdx = 0
    /\ checked = FALSE
    /\ elements = <<>>
    /\ hitsById = <<>>
    /\ scanned = <<>>
    /\ rows = <<>>
    /\ orphans = <<>>
    /\ formatted = NoFormats
    /\ written = <<>>
    /\ stages = <<>>
    /\ exitCode = -1

SpecMeta == InitMeta /\ [][CallCollect \/ CallRows]_vars

\* the element that carries the id, and its extensionElements child when it has one
MetaNode == Get(GivenRoot, TaskTag)
MetaExtKey == IF Len(MetaNode.entries) = 2 THEN MetaNode.entries[2].k ELSE <<>>
MetaExt == IF Len(MetaNode.entries) = 2 THEN MetaNode.entries[2].v ELSE Undefined
ExtRecognized == MetaExtKey \in {BpmnExt, PlainExt}

\* the text-holding descendants of v in document order: [key, text, depth], depth 1
\* for a direct child of v
RECURSIVE TextDescendants(_, _)
TextDescendants(v, depth) ==
    IF v.kind # "obj" THEN <<>>
    ELSE Flatten([e \in 1..Len(v.entries) |->
            Flatten([j \in 1..Len(ItemsOf(v.entries[e].v)) |->
                LET it == ItemsOf(v.entries[e].v)[j]
                IN  IF it.kind = "text"
                    THEN <<[key |-> LastSegment(v.entries[e].k), text |-> it.text,
                            depth |-> depth]>>
                    ELSE TextDescendants(it, depth + 1)])])

MetaDescendants == TextDescendants(MetaExt, 1)

\* the keys of all descendants of v, with or without text
RECURSIVE KeysBelow(_)
KeysBelow(v) ==
    IF v.kind # "obj" THEN {}
    ELSE UNION { {LastSegment(v.entries[e].k)} \cup
                 UNION { KeysBelow(ItemsOf(v.entries[e].v)[j]) :
                           j \in 1..Len(ItemsOf(v.entries[e].v)) } :
                 e \in 1..Len(v.entries) }

RecognizedKeys ==
    {<<"playwrightRef">>, <<"jiraKeys">>, <<"tags">>, <<"priority">>, <<"figmaUrl">>,
     <<"figmaNodeId">>, <<"figmaComponentKey">>, <<"variant">>}

\* the pieces of t between its commas and pipes, trimmed, the empty ones left out
SeparatorsOf(t) == { i \in 1..Len(t) : t[i] \in {",", "|"} }
PieceEnd(t, s) ==
    IF \E i \in SeparatorsOf(t) : i >= s
    THEN (CHOOSE i \in SeparatorsOf(t) : i >= s /\ \A j \in SeparatorsOf(t) : j >= s => i <= j) - 1
    ELSE Len(t)
RECURSIVE PiecesFrom(_, _)
PiecesFrom(t, s) ==
    IF s > Len(t) + 1 THEN <<>>
    ELSE LET piece == Trim(SubSeq(t, s, PieceEnd(t, s)))
         IN  (IF piece = <<>> THEN <<>> ELSE <<piece>>) \o PiecesFrom(t, PieceEnd(t, s) + 2)
Pieces(t) == PiecesFrom(t, 1)

\* the occurrences two levels below v, in document order: [key, x], x the value
\* the parser gives the occurrence
ReadOccurrences(v) ==
    IF v.kind # "obj" THEN <<>>
    ELSE Flatten([e \in 1..Len(v.entries) |->
            Flatten([j \in 1..Len(ItemsOf(v.entries[e].v)) |->
                LET ch == ItemsOf(v.entries[e].v)[j]
                IN  IF ch.kind # "obj" THEN <<>>
                    ELSE Flatten([f \in 1..Len(ch.entries) |->
                            [h \in 1..Len(ItemsOf(ch.entries[f].v)) |->
                                [key |-> LastSegment(ch.entries[f].k),
                                 x |-> ItemsOf(ch.entries[f].v)[h]]]])])])

\* the text value of an occurrence: its text, or for an element with children the
\* text of the first child that is nothing but text
TextValue(x) ==
    IF x.kind = "text" THEN x.text
    ELSE IF x.kind = "obj" /\ \E i \in 1..Len(x.entries) : x.entries[i].v.kind = "text"
    THEN LET i == CHOOSE i \in 1..Len(x.entries) :
                    /\ x.entries[i].v.kind = "text"
                    /\ \A j \in 1..Len(x.entries) : x.entries[j].v.kind = "text" => i <= j
         IN  x.entries[i].v.text
    ELSE <<>>

RECURSIVE SelectTexts(_, _)
SelectTexts(os, key) ==
    IF os = <<>> THEN <<>>
    ELSE (IF Head(os).key = key THEN <<TextValue(Head(os).x)>> ELSE <<>>)
         \o SelectTexts(Tail(os), key)

TextsRead(key) == SelectTexts(ReadOccurrences(MetaExt), key)

Collected == pc = "collected" /\ Len(elements) = 1

\* C11 (as claimed): every descendant of the extensionElements child, at whatever
\* depth, whose prefix-stripped tag is a recognized metadata key contributes its
\* text to the corresponding field of the node.
C11_EveryDepthContributes ==
    (pc = "collected" /\ ExtRecognized) =>
        /\ Len(elements) = 1
        /\ \A i \in 1..Len(MetaDescendants) :
              LET d == MetaDescendants[i]
              IN  /\ d.key = <<"tags">> =>
                        Range(Pieces(d.text)) \subseteq Range(elements[1].meta.tags)
                  /\ d.key = <<"jiraKeys">> =>
                        Range(Pieces(d.text)) \subseteq Range(elements[1].meta.jiraKeys)
                  /\ (d.key = <<"priority">> /\ d.text # <<>>) =>
                        elements[1].meta.priority # <<>>
                  /\ (d.key = <<"variant">> /\ d.text # <<>>) =>
                        elements[1].meta.variant # <<>>

\* C12 (as claimed): the extensionElements child is recognized whatever its
\* namespace prefix: the metadata below a child named p:extensionElements, for any
\* prefix p or none, is read into the node.
C12_AnyPrefixRecognized ==
    (pc = "collected" /\ LastSegment(MetaExtKey) = <<"extensionElements">>) =>
        /\ Len(elements) = 1
        /\ elements[1].meta.tags
             = Flatten([i \in 1..Len(TextsRead(<<"tags">>)) |->
                          Pieces(TextsRead(<<"tags">>)[i])])
        /\ (\E i \in 1..Len(TextsRead(<<"priority">>)) : TextsRead(<<"priority">>)[i] # <<>>)
             => elements[1].meta.priority # <<>>

\* C13: for tags and jiraKeys the text is split at every comma and every pipe,
\* each piece is trimmed, empty pieces are dropped and the rest is appended in
\* order; "a, b|c" gives a, b, c.  (Stated for the texts the extractor reads: those
\* two levels below a recognized extensionElements child.)
C13_ListsSplitAtCommaAndPipe ==
    (pc = "collected" /\ ExtRecognized) =>
        /\ Len(elements) = 1
        /\ elements[1].meta.tags
             = Flatten([i \in 1..Len(TextsRead(<<"tags">>)) |->
                          Pieces(TextsRead(<<"tags">>)[i])])
        /\ elements[1].meta.jiraKeys
             = Flatten([i \in 1..Len(TextsRead(<<"jiraKeys">>)) |->
                          Pieces(TextsRead(<<"jiraKeys">>)[i])])

C13_Witness ==
    /\ Collected
    /\ ExtRecognized
    /\ TextsRead(<<"tags">>)
         = << <<"a", ",", " ", "b", "|", "c">>, <<",", "a", "|", "|">> >>
    /\ elements[1].meta.tags = << <<"a">>, <<"b">>, <<"c">>, <<"a">> >>

\* C14: a node with an id and no extensionElements, or whose extensionElements
\* holds only unrecognized keys, is emitted with every list field empty and every
\* scalar field the empty string.
C14_NoMetadataIsNoError ==
    (pc = "collected" /\ KeysBelow(MetaExt) \cap RecognizedKeys = {}) =>
        /\ Len(elements) = 1
        /\ elements[1].id = <<"A">>
        /\ elements[1].meta = EmptyMeta

C14_Witness ==
    /\ Collected
    /\ ExtRecognized
    /\ MetaExt = Obj(<<[k |-> GroupKey, v |-> Obj(<<[k |-> UnusedKey, v |-> Text(<<"P1">>)]>>)]>>)
    /\ elements[1].meta = EmptyMeta

\* C15 (as claimed): when a scalar key occurs several times the field holds the
\* text of the last occurrence, also when that text is empty.  (Stated for the
\* occurrences the extractor reads: those two levels below a recognized
\* extensionElements child.)
C15_LastOccurrenceWins ==
    (pc = "collected" /\ ExtRecognized) =>
        /\ Len(elements) = 1
        /\ LET ps == TextsRead(<<"priority">>)
               vs == TextsRead(<<"variant">>)
           IN  /\ ps # <<>> => elements[1].meta.priority = ps[Len(ps)]
               /\ vs # <<>> => elements[1].meta.variant = vs[Len(vs)]

-----------------------------------------------------------------------------
(* toCSV alone: every list of at most MaxNodes rows whose names hold quotes,
   commas and newlines *)

CsvNames == SeqsUpTo({"a", "\"", ",", NL}, 2)

CsvNodes ==
    { [id |-> <<"A">>, type |-> TaskTag, name |-> n, meta |-> EmptyMeta] : n \in CsvNames }

InitCsv ==
    /\ variant = "-"
    /\ pc = "collected"
    /\ docFile = NoFile
    /\ artifacts = <<>>
    /\ refsById = <<>>
    /\ doc = NoDoc
    /\ files = <<>>
    /\ readable = {}
    /\ fileIdx = 0
    /\ checked = FALSE
    /\ elements \in SeqsUpTo(CsvNodes, MaxNodes)
    /\ hitsById = <<>>
    /\ scanned = <<>>
    /\ rows = <<>>
    /\ orphans = <<>>
    /\ formatted = NoFormats
    /\ written = <<>>
    /\ stages = <<>>
    /\ exitCode = -1

\* const csv = toCSV(rows)
CallToCSV ==
    /\ variant = "-"
    /\ pc = "reported"
    /\ formatted' = [formatted EXCEPT !.csv = toCSV(rows)]
    /\ pc' = "formatted"
    /\ UNCHANGED <<variant, docFile, artifacts, refsById, doc, files, readable, fileIdx, checked,
                   elements, hitsById, scanned, rows, orphans, written, stages, exitCode>>

SpecCsv == InitCsv /\ [][CallRows \/ CallToCSV]_vars

\* A reader of delimited text in which every field is quoted: a field opens with a
\* double quote, a doubled double quote inside it is one double quote, a single
\* one closes it; a comma then starts the next field, a newline the next record.
\* The result is the records read, or <<"malformed">>.
Malformed == [ok |-> FALSE, val |-> <<>>, next |-> 0, last |-> TRUE]

\* the field whose opening quote is at j - 1: its value and the position after its
\* closing quote
RECURSIVE ReadField(_, _, _)
ReadField(s, j, acc) ==
    IF j > Len(s) THEN Malformed
    ELSE IF s[j] # "\"" THEN ReadField(s, j + 1, Append(acc, s[j]))
    ELSE IF j < Len(s) /\ s[j + 1] = "\"" THEN ReadField(s, j + 2, Append(acc, "\""))
    ELSE [ok |-> TRUE, val |-> acc, next |-> j + 1, last |-> TRUE]

\* the record whose next field starts at i: its fields, the position after it, and
\* whether it is the last record
RECURSIVE ReadRecord(_, _, _)
ReadRecord(s, i, rec) ==
    IF i > Len(s) \/ s[i] # "\"" THEN Malformed
    ELSE LET f == ReadField(s, i + 1, <<>>)
         IN  IF ~f.ok THEN Malformed
             ELSE IF f.next > Len(s)
             THEN [ok |-> TRUE, val |-> Append(rec, f.val), next |-> f.next, last |-> TRUE]
             ELSE IF s[f.next] = "," THEN ReadRecord(s, f.next + 1, Append(rec, f.val))
             ELSE IF s[f.next] = NL
             THEN [ok |-> TRUE, val |-> Append(rec, f.val), next |-> f.next + 1,
                   last |-> FALSE]
             ELSE Malformed

RECURSIVE ReadRecords(_, _, _)
ReadRecords(s, i, recs) ==
    LET r == ReadRecord(s, i, <<>>)
    IN  IF ~r.ok THEN <<"malformed">>
        ELSE IF r.last THEN Append(recs, r.val)
        ELSE ReadRecords(s, r.next, Append(recs, r.val))

ReadCsv(s) == ReadRecords(s, 1, <<>>)

\* C16: toCSV gives the header record and then one record per row in row order,
\* every field of every record (the header's too) between double quotes with its
\* own double quotes doubled: read back as fully quoted delimited text, the output
\* is the header followed by the fields of the rows.
C16_EveryFieldQuoted ==
    pc = "formatted" =>
        ReadCsv(formatted.csv)
          = <<CsvHeader>> \o [i \in 1..Len(rows) |-> RowFields(rows[i])]

C16_Witness ==
    /\ pc = "formatted"
    /\ Len(rows) = 2
    /\ rows[1].name = <<"a", "\"">>
    /\ rows[2].name = <<",", NL>>
    /\ Len(ReadCsv(formatted.csv)) = 3

-----------------------------------------------------------------------------
(* Determinism of a run of the report script *)

\* the Map a scan of the files fs builds, starting from m
RECURSIVE ScanAll(_, _)
ScanAll(m, fs) ==
    IF fs = <<>> THEN m
    ELSE ScanAll(ScanFile(m, Head(fs).name, Head(fs).text), Tail(fs))

\* what the document and the artifact files of the run determine
NodesOfInputs == collectBpmnElements(Defs(docFile.tree), <<>>)
ReportOfInputs ==
    buildReport(NodesOfInputs, ScanAll(<<>>, SelectNames(artifacts, GlobNames)))
JsonOfInputs == ToJson(ReportOfInputs.rows, ReportOfInputs.orphans)

\* no artifact file was removed during the run
InputsUnchanged == readable = NamesOf(artifacts)

\* C17: the node list and the structured-data output {rows, orphans} of a run of
\* the report script are determined by the document and the artifact files alone
\* (in their enumeration order): whatever the clock shows and however the steps
\* interleave with the file system, two runs on the same inputs give the same
\* nodes and the same structured data.
C17_OutputDependsOnInputsOnly ==
    (variant \in ReportVariants /\ InputsUnchanged) =>
        /\ "extract" \in Range(stages) => elements = NodesOfInputs
        /\ "format" \in Range(stages) => formatted.json = JsonOfInputs
        /\ \A i \in 1..Len(written) :
              OutTargets(variant)[i].kind = "json" => written[i].content = JsonOfInputs

C17_Witness ==
    /\ variant = "v2"
    /\ pc = "done"
    /\ InputsUnchanged
    /\ Len(artifacts) = 2
    /\ Len(written) = 6
    /\ rows # <<>>
    /\ orphans # <<>>
    /\ formatted.html.generated = "day2"
    /\ written[6].content = JsonOfInputs

-----------------------------------------------------------------------------
(* The titles of the hits: every file made of at most MaxParts declarations,
   markers and line breaks *)

MaxParts == 3

MarkerA == <<OPEN, "A", CLOSE>>
MarkerB == <<OPEN, "B", CLOSE>>

TitleBodies == {<<>>, MarkerA, MarkerB, MarkerA \o MarkerB, <<"x">> \o MarkerA}

\* test('...'), IT ("..."), a declaration whose quote is never closed, bare
\* markers, a line break
TitleParts ==
    { <<"test", "(", "'">> \o b \o <<"'">> : b \in TitleBodies } \cup
    { <<"IT", " ", "(", "\"">> \o b \o <<"\"">> : b \in TitleBodies } \cup
    { <<"describe", "(", "'">> \o MarkerA \o <<"\"">>, MarkerA, MarkerB, <<NL>> }

TitleTexts(n) == { Flatten(ps) : ps \in SeqsUpTo(TitleParts, n) }

InitTitles ==
    /\ variant = "-"
    /\ pc = "scanFile"
    /\ docFile = NoFile
    /\ artifacts = <<>>
    /\ refsById = <<>>
    /\ doc = NoDoc
    /\ \E t \in TitleTexts(MaxParts) : files = <<[name |-> ScanName, text |-> t]>>
    /\ readable = {ScanName}
    /\ fileIdx = 1
    /\ checked = TRUE
    /\ elements = <<>>
    /\ hitsById = <<>>
    /\ scanned = <<>>
    /\ rows = <<>>
    /\ orphans = <<>>
    /\ formatted = NoFormats
    /\ written = <<>>
    /\ stages = <<>>
    /\ exitCode = -1

SpecTitles == InitTitles /\ [][CallScanFile]_vars

\* the text t holds the run of characters needle
Contains(t, needle) ==
    \E a \in 0..(Len(t) - Len(needle)) :
        \A i \in 1..Len(needle) : t[a + i] = needle[i]

\* the collected titles that hold the marker of hit e, by their place in the collection
TitlesWith(e) ==
    { i \in 1..Len(Titles(ScanText)) :
        Contains(Titles(ScanText)[i], <<OPEN>> \o e.id \o <<CLOSE>>) }

\* C18: the title stored with a hit is the first, in collection order, of the
\* titles collected from the file that contain the marker of the hit, and the
\* empty string when no collected title contains it.
C18_TitleIsFirstTitleWithMarker ==
    pc = "scannedFile" =>
        \A k \in 1..Len(scanned) :
            IF TitlesWith(scanned[k]) = {}
            THEN scanned[k].hit.title = <<>>
            ELSE \E i \in TitlesWith(scanned[k]) :
                    /\ \A j \in TitlesWith(scanned[k]) : i <= j
                    /\ scanned[k].hit.title = Titles(ScanText)[i]

C18_Witness ==
    /\ pc = "scannedFile"
    /\ Len(Titles(ScanText)) = 2
    /\ Len(scanned) = 3
    /\ scanned[1].hit.title = <<"x">> \o MarkerA
    /\ scanned[2].hit.title = <<"x">> \o MarkerA
    /\ scanned[2].hit.title # Titles(ScanText)[2]
    /\ scanned[3].id = <<"B">>
    /\ scanned[3].hit.title = <<>>

-----------------------------------------------------------------------------
(* Rows and nodes *)

\* the scanned hits that carry id, in scan order
RECURSIVE HitsWithId(_, _)
HitsWithId(list, id) ==
    IF list = <<>> THEN <<>>
    ELSE (IF Head(list).id = id THEN <<Head(list).hit>> ELSE <<>>)
         \o HitsWithId(Tail(list), id)

\* C19: buildReport returns one row per extracted node, in extraction order, and
\* when several nodes share an id each of them has its own row with the complete
\* group of hits of that id.
C19_OneRowPerNode ==
    pc = "reported" =>
        /\ Len(rows) = Len(elements)
        /\ \A i \in 1..Len(rows) :
              /\ rows[i].id = elements[i].id
              /\ rows[i].hits = HitsWithId(scanned, elements[i].id)
              /\ rows[i].coverage = "Covered" <=> rows[i].hits # <<>>

C19_Witness ==
    /\ pc = "reported"
    /\ Len(elements) = 2
    /\ elements[1].id = elements[2].id
    /\ Len(rows) = 2
    /\ Len(rows[1].hits) = 2
    /\ rows[2].hits = rows[1].hits
    /\ rows[1].hits[1] # rows[1].hits[2]

-----------------------------------------------------------------------------
(* extractTasks alone (parser path): every document of at most MaxTaskTree
   elements *)

MaxTaskTree == 3

\* tag and id of an element: task-like names in the spellings the documents use,
\* other names, with and without an id
TaskLabels ==
    { [tag |-> <<"bpmn", ":", "task">>, id |-> <<"A">>],
      [tag |-> <<"bpmn", ":", "task">>, id |-> <<>>],
      [tag |-> <<"bpmn", ":", "user", "Task">>, id |-> <<"B">>],
      [tag |-> <<"x", ":", "TASK">>, id |-> <<"a">>],
      [tag |-> <<"task">>, id |-> <<"B">>],
      [tag |-> <<"bpmn", ":", "task", "List">>, id |-> <<"A">>],
      [tag |-> <<"bpmn", ":", "start", "Event">>, id |-> <<"a">>],
      [tag |-> <<"bpmn", ":", "definitions">>, id |-> <<>>] }

RECURSIVE TaskForests(_)
TaskForests(n) ==
    {<<>>} \cup
    UNION { { <<XElem(l.tag, l.id, <<>>, kids)>> \o rest :
                l \in TaskLabels, kids \in TaskForests(s - 1), rest \in TaskForests(n - s) } :
            s \in 1..n }

TaskDocs(n) ==
    { [tree |-> f, xml |-> Markup(f), parses |-> TRUE] :
        f \in { g \in TaskForests(n) : Len(g) = 1 } }

InitTasks ==
    /\ variant = "-"
    /\ pc = "extractTasks"
    /\ docFile = NoFile
    /\ artifacts = <<>>
    /\ refsById = <<>>
    /\ doc \in TaskDocs(MaxTaskTree)
    /\ files = <<>>
    /\ readable = {}
    /\ fileIdx = 0
    /\ checked = FALSE
    /\ elements = <<>>
    /\ hitsById = <<>>
    /\ scanned = <<>>
    /\ rows = <<>>
    /\ orphans = <<>>
    /\ formatted = NoFormats
    /\ written = <<>>
    /\ stages = <<>>
    /\ exitCode = -1

\* const tasks = extractTasks(bpmnXML), the parser available
CallExtractTasks ==
    /\ variant = "-"
    /\ pc = "extractTasks"
    /\ elements' = extractTasks(doc, TRUE)
    /\ pc' = "extracted"
    /\ UNCHANGED <<variant, docFile, artifacts, refsById, doc, files, readable, fileIdx, checked,
                   hitsById, scanned, rows, orphans, formatted, written, stages,
                   exitCode>>

\* const rows = tasks.map(...).sort(...), no marker and no reference found
CallTaskRows ==
    /\ variant = "-"
    /\ pc = "extracted"
    /\ rows' = TaskRows(elements, EmptyMarkers(<<>>, TaskIds), refsById)
    /\ pc' = "rowsBuilt"
    /\ UNCHANGED <<variant, docFile, artifacts, refsById, doc, files, readable, fileIdx, checked,
                   elements, hitsById, scanned, orphans, formatted, written, stages,
                   exitCode>>

SpecTasks == InitTasks /\ [][CallExtractTasks \/ CallTaskRows]_vars

\* The elements of the document, addressed by paths of child positions.
RECURSIVE ElemPaths(_)
ElemPaths(nodes) ==
    UNION { {<<i>>} \cup { <<i>> \o p : p \in ElemPaths(nodes[i].kids) } :
            i \in 1..Len(nodes) }

RECURSIVE ElemAt(_, _)
ElemAt(nodes, p) ==
    IF Len(p) = 1 THEN nodes[p[1]] ELSE ElemAt(nodes[p[1]].kids, Tail(p))

\* p comes before q in document order
DocOrderLess(p, q) ==
    \E n \in 1..Len(q) :
        /\ \A i \in 1..(n - 1) : i <= Len(p) /\ p[i] = q[i]
        /\ \/ n = Len(p) + 1
           \/ n <= Len(p) /\ p[n] < q[n]

\* the name behind the last colon, lower-cased, ends with "task"
IsTaskName(tag) ==
    /\ tag # <<>>
    /\ tag[Len(tag)] \in {"task", "Task", "TASK"}

TaskPaths ==
    { p \in ElemPaths(doc.tree) :
        ElemAt(doc.tree, p).id # <<>> /\ IsTaskName(ElemAt(doc.tree, p).tag) }

TaskRank(p) == 1 + Cardinality({ q \in TaskPaths : DocOrderLess(q, p) })

\* C20: extractTasks (parser path) returns the elements that have a non-empty id
\* and whose name, prefix removed and lower-cased, ends with "task", nested ones
\* included, and nothing else; the rows of the report are these elements.
C20_ExactlyTheTaskElements ==
    /\ pc \in {"extracted", "rowsBuilt"} =>
          /\ Len(elements) = Cardinality(TaskPaths)
          /\ \A p \in TaskPaths :
                /\ TaskRank(p) <= Len(elements)
                /\ elements[TaskRank(p)].id = ElemAt(doc.tree, p).id
                /\ elements[TaskRank(p)].tag = ElemAt(doc.tree, p).tag
    /\ pc = "rowsBuilt" =>
          /\ Len(rows) = Cardinality(TaskPaths)
          /\ \A i \in 1..Len(rows) :
                \E p \in TaskPaths :
                    /\ rows[i].id = ElemAt(doc.tree, p).id
                    /\ rows[i].type = ElemAt(doc.tree, p).tag

C20_Witness ==
    /\ pc = "rowsBuilt"
    /\ Cardinality(ElemPaths(doc.tree)) = 3
    /\ Len(rows) = 2
    /\ \E p \in TaskPaths : Len(p) = 3 /\ ElemAt(doc.tree, p).tag = <<"bpmn", ":", "user", "Task">>
    /\ \E p \in TaskPaths : Len(p) = 2 /\ ElemAt(doc.tree, p).tag = <<"x", ":", "TASK">>

-----------------------------------------------------------------------------
(* Coverage in the Tasks-only generator, under Spec *)

\* the rows of the Tasks-only generator have been built
TasksReconciled == variant \in TaskVariants /\ "reconcile" \in Range(stages)

\* the scanned files, in scan order, whose text holds the marker [bpmn:<id>]
MarkerFiles(id) ==
    SelectSeq(files, LAMBDA f : Includes(f.text, <<OPEN>> \o id \o <<CLOSE>>))

MarkerFileNames(id) == [k \in 1..Len(MarkerFiles(id)) |-> MarkerFiles(id)[k].name]

\* the string scan of the document finds a non-empty test:playwrightRef for id
DeclaredRef(id) == MapGetOrEmpty(extractPlaywrightRefsById(doc.xml), id) # <<>>

\* summary.covered in the JSON report, wherever it has been written
CoveredCountIs(n) ==
    \A k \in 1..Len(written) :
        written[k].path = "reports/coverage/bpmn-test-report.json"
            => written[k].content.summary.covered = n

C21_UncoveredWitness ==
    /\ TasksReconciled
    /\ InputsUnchanged
    /\ pc = "done"
    /\ \E i \in 1..Len(rows) :
          ~rows[i].hasTests /\ MarkerFiles(rows[i].id) = <<>> /\ ~DeclaredRef(rows[i].id)
-----------------------------------------------------------------------------
(* The order of the orphan list, under SpecReport: scanned is the list of
   hits in the order the scanner pushes them (file order, then offset) *)

\* the position in the scan of the first hit carrying id (0: none)
FirstInScan(id) ==
    IF \E k \in 1..Len(scanned) : scanned[k].id = id
    THEN CHOOSE k \in 1..Len(scanned) :
            /\ scanned[k].id = id
            /\ \A j \in 1..(k - 1) : scanned[j].id # id
    ELSE 0

\* the scanned hits carrying id, in scan order
ScanOf(id) == SelectSeq(scanned, LAMBDA e : e.id = id)

\* the orphan entries carrying id, in list order
OrphansWith(id) == SelectSeq(orphans, LAMBDA o : o.id = id)

\* C22: the orphan list is ordered by identifier group: the groups appear in the
\* order in which each orphaned identifier first occurs in the scan, and inside a
\* group the entries keep the scan order of their hits; the per-identifier hit
\* lists of the scanner keep scan order, and its keys the order of first
\* occurrence.
C22_OrphansGroupedInScanOrder ==
    /\ \A g \in 1..Len(hitsById) :
          /\ hitsById[g].hits =
                [k \in 1..Len(ScanOf(hitsById[g].id)) |-> ScanOf(hitsById[g].id)[k].hit]
          /\ \A h \in 1..Len(hitsById) :
                g < h => FirstInScan(hitsById[g].id) < FirstInScan(hitsById[h].id)
    /\ pc = "reported" =>
          /\ \A i, j \in 1..Len(orphans) :
                i < j => FirstInScan(orphans[i].id) <= FirstInScan(orphans[j].id)
          /\ \A i \in 1..Len(orphans) :
                /\ FirstInScan(orphans[i].id) > 0
                /\ OrphansWith(orphans[i].id) =
                      [k \in 1..Len(ScanOf(orphans[i].id)) |->
                          EntryOf(ScanOf(orphans[i].id)[k])]

\* two orphaned identifiers, the hits of the first interleaved with the hit of
\* the second, in different files: the list differs from the scan order
C22_Witness ==
    /\ pc = "reported"
    /\ Len(scanned) = 3
    /\ scanned[1].id = scanned[3].id
    /\ scanned[1].id # scanned[2].id
    /\ scanned[1].hit.file # scanned[3].hit.file
    /\ Unmatched(scanned[1]) /\ Unmatched(scanned[2])
    /\ orphans = <<EntryOf(scanned[1]), EntryOf(scanned[3]), EntryOf(scanned[2])>>
=============================================================================
